---------------------------- MODULE Spec2Model ----------------------------
(***************************************************************************)
(* A model of the poculum-go codec: dump (encodeValue and its helpers,     *)
(* src/unnamed/part_002) and load (decodeValue and its helpers,            *)
(* src/pkg/decode_poc.go) over the tag table of src/pkg/poc_type.go.       *)
(*                                                                         *)
(* A byte is a number in 0..255 and a buffer a sequence of bytes.  A Go    *)
(* value is a record of its dynamic type k and its content (b, i, f, s, d, *)
(* l or m: a bool, integer, float, string, []byte, list or map).  A string *)
(* is the sequence of its bytes.  An integer is [neg, mag]: a sign and the *)
(* eight                                                                   *)
(* big-endian bytes of its magnitude, because a 64-bit integer does not    *)
(* fit a TLC integer; the wire form is computed from it (two's complement, *)
(* cut to the width of the type) and parsed back.  A map[string]any is a   *)
(* function from its keys to its values.                                   *)
(***************************************************************************)
EXTENDS Integers, Sequences, FiniteSets, TLC

(***************************************************************************)
(* Type tags, src/pkg/poc_type.go.                                         *)
(***************************************************************************)
typeUInt8 == 1
typeUInt16 == 2
typeUInt32 == 3
typeUInt64 == 4
typeInt8 == 17
typeInt16 == 18
typeInt32 == 19
typeInt64 == 20
typeFloat32 == 33
typeFloat64 == 34
typeFixStringBase == 48
typeString16 == 65
typeString32 == 66
typeFixListBase == 80
typeList16 == 97
typeList32 == 98
typeFixMapBase == 112
typeMap16 == 129
typeMap32 == 130
typeBytes8 == 145
typeBytes16 == 146
typeBytes32 == 147
\* A faulty tag of True, which is the tag of UInt8.
typeTrueAsUInt8 == typeUInt8
typeTrue == 160
typeFalse == 161
typeNil == 163

(***************************************************************************)
(* The limits of a codec instance.  The default limits are math.MaxUint32; *)
(* a TLC integer ends at 2^31-1, so every length and limit of 2^31 or more *)
(* is held as 2^31-1.  The buffers of the model are far shorter, and the   *)
(* code only compares these numbers, so the comparisons come out as in the *)
(* code.                                                                   *)
(***************************************************************************)
WithLimits(maxRecursion, maxStringSize, maxContainerItems) ==
  [maxRecursionDepth |-> maxRecursion,
   maxStringSize |-> maxStringSize,
   maxContainerItems |-> maxContainerItems]

NewPoculum == WithLimits(2147483647, 2147483647, 2147483647)

(***************************************************************************)
(* Bytes and integers.                                                     *)
(***************************************************************************)
Byte == 0..255

Zeros(n) == [i \in 1..n |-> 0]

\* The last w bytes of a byte sequence.
Low(bs, w) == SubSeq(bs, Len(bs) - w + 1, Len(bs))

\* A byte sequence plus one, as an unsigned number of the same width.
RECURSIVE AddOne(_)
AddOne(bs) ==
  IF bs = <<>> THEN <<>>
  ELSE LET n == Len(bs) IN
       IF bs[n] = 255 THEN Append(AddOne(SubSeq(bs, 1, n - 1)), 0)
       ELSE Append(SubSeq(bs, 1, n - 1), bs[n] + 1)

\* Two's complement negation at the width of bs.
Negate(bs) == AddOne([i \in 1..Len(bs) |-> 255 - bs[i]])

\* Lexicographic <= on byte sequences of one length: <= on the numbers.
RECURSIVE LexLeq(_, _)
LexLeq(a, b) ==
  IF a = <<>> THEN TRUE
  ELSE IF a[1] # b[1] THEN a[1] < b[1]
  ELSE LexLeq(Tail(a), Tail(b))

\* The integer n, |n| < 2^31, as [neg, mag].
Num(n) ==
  LET m == IF n < 0 THEN 0 - n ELSE n IN
  [neg |-> n < 0,
   mag |-> <<0, 0, 0, 0, (m \div 16777216) % 256, (m \div 65536) % 256,
             (m \div 256) % 256, m % 256>>]

\* A faulty binary.Write, which writes the low byte first.
LittleEndian(v, w) ==
  LET bs == IF v.neg THEN Negate(Low(v.mag, w)) ELSE Low(v.mag, w) IN
  [i \in 1..w |-> bs[w + 1 - i]]

\* binary.Write(buf, binary.BigEndian, v) of an integer of w bytes.
BigEndian(v, w) == IF v.neg THEN Negate(Low(v.mag, w)) ELSE Low(v.mag, w)

\* The unsigned integer a big-endian field holds.
FromUnsigned(bs) == [neg |-> FALSE, mag |-> Zeros(8 - Len(bs)) \o bs]

\* The signed integer a big-endian two's complement field holds.
FromSigned(bs) ==
  IF bs[1] >= 128 THEN [neg |-> TRUE, mag |-> Zeros(8 - Len(bs)) \o Negate(bs)]
  ELSE [neg |-> FALSE, mag |-> Zeros(8 - Len(bs)) \o bs]

\* A length or count as a 16-bit field: uint16(length).
U16(n) == <<(n \div 256) % 256, n % 256>>

\* A length or count as a 32-bit field: uint32(length).
U32(n) == <<(n \div 16777216) % 256, (n \div 65536) % 256, (n \div 256) % 256, n % 256>>

\* int(length) of a 16-bit length field.
Len16(bs) == bs[1] * 256 + bs[2]

\* A faulty reading of a 32-bit length field, in little-endian order.
Len32Swapped(bs) ==
  IF bs[4] >= 128 THEN 2147483647
  ELSE bs[4] * 16777216 + bs[3] * 65536 + bs[2] * 256 + bs[1]

\* int(length) of a 32-bit length field, held as 2^31-1 from 2^31 on.
Len32(bs) ==
  IF bs[1] >= 128 THEN 2147483647
  ELSE bs[1] * 16777216 + bs[2] * 65536 + bs[3] * 256 + bs[4]

(***************************************************************************)
(* utf8.Valid: the well-formed byte sequences of the Unicode standard.     *)
(***************************************************************************)
Cont(b) == b >= 128 /\ b <= 191

RECURSIVE utf8Valid(_)
utf8Valid(p) ==
  IF p = <<>> THEN TRUE
  ELSE LET b == p[1]
           n == Len(p)
           rest(k) == utf8Valid(SubSeq(p, k + 1, n))
       IN
       IF b < 128 THEN rest(1)
       ELSE IF b >= 194 /\ b <= 223 THEN n >= 2 /\ Cont(p[2]) /\ rest(2)
       ELSE IF b >= 224 /\ b <= 239 THEN
         /\ n >= 3
         /\ p[2] >= (IF b = 224 THEN 160 ELSE 128)
         /\ p[2] <= (IF b = 237 THEN 159 ELSE 191)
         /\ Cont(p[3])
         /\ rest(3)
       ELSE IF b >= 240 /\ b <= 244 THEN
         /\ n >= 4
         /\ p[2] >= (IF b = 240 THEN 144 ELSE 128)
         /\ p[2] <= (IF b = 244 THEN 143 ELSE 191)
         /\ Cont(p[3])
         /\ Cont(p[4])
         /\ rest(4)
       ELSE FALSE

(***************************************************************************)
(* Go values.                                                              *)
(***************************************************************************)
Nil == [k |-> "nil"]
Bool(b) == [k |-> "bool", b |-> b]
Integer(kind, n) == [k |-> kind, i |-> n]
Float(kind, bits) == [k |-> kind, f |-> bits]
Str(bs) == [k |-> "string", s |-> bs]
Bytes(bs) == [k |-> "bytes", d |-> bs]
List(items) == [k |-> "list", l |-> items]
Map(obj) == [k |-> "map", m |-> obj]

\* What a failed decode returns beside its error: the zero value of the
\* helper's result type ("" of decodeString, a nil slice or map of the others).
NilSlice == [k |-> "nilslice"]
NilMap == [k |-> "nilmap"]
NilBytes == [k |-> "nilbytes"]

EmptyMap == <<>>

\* A faulty obj[key] = val, which keeps the value a key already has.
PutIfAbsent(obj, key, val) ==
  [x \in (DOMAIN obj) \cup {key} |-> IF x \in DOMAIN obj THEN obj[x] ELSE val]

\* obj[key] = val
Put(obj, key, val) ==
  [x \in (DOMAIN obj) \cup {key} |-> IF x = key THEN val ELSE obj[x]]

(***************************************************************************)
(* The encoder, src/unnamed/part_002.  Its working state r is the buffer   *)
(* with the error raised so far ("" for none) and a log of the calls made: *)
(* each entry names the function entered, its depth argument (-1 where it  *)
(* has none), the length or count n it was given and the length `at` of    *)
(* the buffer at that moment.  Go iterates a map in an unspecified order,  *)
(* so an encoder function yields the set of the states it can end in.      *)
(***************************************************************************)
NewBuffer == [err |-> "", buf |-> <<>>, log |-> <<>>]

Fail(r, errType) == [r EXCEPT !.err = errType]

Write(r, bs) == [r EXCEPT !.buf = @ \o bs]

Note(r, op, depth, n) ==
  [r EXCEPT !.log = Append(@, [op |-> op, depth |-> depth, n |-> n, at |-> Len(r.buf)])]

\* v <= math.MaxUint32 of a non-negative native integer
\* A faulty comparison with math.MaxUint32, which lets five bytes through.
LeqMaxUint40(v) == SubSeq(v.mag, 1, 3) = Zeros(3)

LeqMaxUint32(v) == SubSeq(v.mag, 1, 4) = Zeros(4)

\* A faulty comparison with math.MinInt32, which is v > math.MinInt32.
GtMinInt32(v) ==
  SubSeq(v.mag, 1, 4) = Zeros(4) /\ LexLeq(Low(v.mag, 4), <<127, 255, 255, 255>>)

\* v >= math.MinInt32 of a negative native integer
GeqMinInt32(v) ==
  SubSeq(v.mag, 1, 4) = Zeros(4) /\ LexLeq(Low(v.mag, 4), <<128, 0, 0, 0>>)

\* The orders in which a range over the keys of a map may visit them.
RECURSIVE Orders(_)
Orders(keys) ==
  IF keys = {} THEN {<<>>}
  ELSE UNION {{<<x>> \o p : p \in Orders(keys \ {x})} : x \in keys}

StringHeader(length) ==
  IF length <= 15 THEN <<(typeFixStringBase + length) % 256>>
  ELSE IF length <= 65535 THEN <<typeString16>> \o U16(length)
  ELSE <<typeString32>> \o U32(length)

\* A faulty encodeString, which writes whatever bytes the string holds.
encodeStringUnchecked(poc, s, r0) ==
  LET length == Len(s)
      r == Note(r0, "encodeString", -1, length)
  IN
  IF length > poc.maxStringSize THEN Fail(r, "DataTooLarge")
  ELSE Write(Write(r, StringHeader(length)), s)

\* A faulty encodeString, whose ceiling is one byte too high.
encodeStringLax(poc, s, r0) ==
  LET length == Len(s)
      r == Note(r0, "encodeString", -1, length)
  IN
  IF length - 1 > poc.maxStringSize THEN Fail(r, "DataTooLarge")
  ELSE IF ~utf8Valid(s) THEN Fail(r, "Utf8Error")
  ELSE Write(Write(r, StringHeader(length)), s)

encodeString(poc, s, r0) ==
  LET length == Len(s)
      r == Note(r0, "encodeString", -1, length)
  IN
  IF length > poc.maxStringSize THEN Fail(r, "DataTooLarge")
  ELSE IF ~utf8Valid(s) THEN Fail(r, "Utf8Error")
  ELSE Write(Write(r, StringHeader(length)), s)

BytesHeader(length) ==
  IF length <= 255 THEN <<typeBytes8, length % 256>>
  ELSE IF length <= 65535 THEN <<typeBytes16>> \o U16(length)
  ELSE <<typeBytes32>> \o U32(length)

encodeBytes(poc, data, r0) ==
  LET length == Len(data)
      r == Note(r0, "encodeBytes", -1, length)
  IN Write(Write(r, BytesHeader(length)), data)

\* A faulty ListHeader, which leaves the Fix tier one element early.
ListHeaderWide(length) ==
  IF length < 15 THEN <<(typeFixListBase + length) % 256>>
  ELSE IF length <= 65535 THEN <<typeList16>> \o U16(length)
  ELSE <<typeList32>> \o U32(length)

ListHeader(length) ==
  IF length <= 15 THEN <<(typeFixListBase + length) % 256>>
  ELSE IF length <= 65535 THEN <<typeList16>> \o U16(length)
  ELSE <<typeList32>> \o U32(length)

MapHeader(length) ==
  IF length <= 15 THEN <<(typeFixMapBase + length) % 256>>
  ELSE IF length <= 65535 THEN <<typeMap16>> \o U16(length)
  ELSE <<typeMap32>> \o U32(length)

RECURSIVE encodeValue(_, _, _, _)
RECURSIVE encodeItems(_, _, _, _, _)
RECURSIVE encodeEntries(_, _, _, _, _, _)

\* A faulty loop of encodeArray, which takes the items from the last to the
\* first.
encodeItemsReversed(poc, arr, i, rs, depth) ==
  IF i > Len(arr) THEN rs
  ELSE encodeItems(poc, arr, i + 1,
         UNION {IF r.err # "" THEN {r}
                ELSE encodeValue(poc, arr[Len(arr) + 1 - i], r, depth + 1)
                : r \in rs},
         depth)

\* The loop of encodeArray from item i on, over the states rs reached so far.
encodeItems(poc, arr, i, rs, depth) ==
  IF i > Len(arr) THEN rs
  ELSE encodeItems(poc, arr, i + 1,
         UNION {IF r.err # "" THEN {r} ELSE encodeValue(poc, arr[i], r, depth + 1)
                : r \in rs},
         depth)

\* A faulty encodeArray, which encodes the items at its own depth.
encodeArrayFlat(poc, arr, r0, depth) ==
  LET length == Len(arr)
      r == Note(r0, "encodeArray", depth, length)
  IN
  IF length > poc.maxContainerItems THEN {Fail(r, "DataTooLarge")}
  ELSE encodeItems(poc, arr, 1, {Write(r, ListHeader(length))}, depth - 1)

encodeArray(poc, arr, r0, depth) ==
  LET length == Len(arr)
      r == Note(r0, "encodeArray", depth, length)
  IN
  IF length > poc.maxContainerItems THEN {Fail(r, "DataTooLarge")}
  ELSE encodeItems(poc, arr, 1, {Write(r, ListHeader(length))}, depth)

\* The loop of encodeMap from the i-th key of the iteration order on.
encodeEntries(poc, obj, order, i, rs, depth) ==
  IF i > Len(order) THEN rs
  ELSE encodeEntries(poc, obj, order, i + 1,
         UNION {IF r.err # "" THEN {r}
                ELSE LET rk == encodeString(poc, order[i], r) IN
                     IF rk.err # "" THEN {rk}
                     ELSE encodeValue(poc, obj[order[i]], rk, depth + 1)
                : r \in rs},
         depth)

encodeMap(poc, obj, r0, depth) ==
  LET length == Cardinality(DOMAIN obj)
      r == Note(r0, "encodeMap", depth, length)
  IN
  IF length > poc.maxContainerItems THEN {Fail(r, "DataTooLarge")}
  ELSE UNION {encodeEntries(poc, obj, order, 1, {Write(r, MapHeader(length))}, depth)
              : order \in Orders(DOMAIN obj)}

\* encodeWithReflection: the dynamic types the type switch does not list.
encodeWithReflection(poc, value, r0, depth) ==
  LET r == Note(r0, "encodeWithReflection", depth, 0) IN
  CASE value.k = "namedbool" ->
         {Write(r, IF value.b THEN <<typeTrue>> ELSE <<typeFalse>>)}
    [] value.k = "slice" -> encodeArray(poc, value.l, r, depth)
    [] value.k = "keyedmap" ->
         IF value.key # "string" THEN {Fail(r, "UnsupportedType")}
         ELSE encodeMap(poc, value.m, r, depth)
    [] OTHER -> {Fail(r, "UnsupportedType")}

encodeValue(poc, value, r0, depth) ==
  LET r == Note(r0, "encodeValue", depth, 0) IN
  IF depth > poc.maxRecursionDepth THEN {Fail(r, "MaxRecursionDepth")}
  ELSE
  CASE value.k = "uint8" -> {Write(r, <<typeUInt8>> \o BigEndian(value.i, 1))}
    [] value.k = "uint16" -> {Write(r, <<typeUInt16>> \o BigEndian(value.i, 2))}
    [] value.k = "uint32" -> {Write(r, <<typeUInt32>> \o BigEndian(value.i, 4))}
    [] value.k = "uint64" -> {Write(r, <<typeUInt64>> \o BigEndian(value.i, 8))}
    [] value.k = "int8" -> {Write(r, <<typeInt8>> \o BigEndian(value.i, 1))}
    [] value.k = "int16" -> {Write(r, <<typeInt16>> \o BigEndian(value.i, 2))}
    [] value.k = "int32" -> {Write(r, <<typeInt32>> \o BigEndian(value.i, 4))}
    [] value.k = "int64" -> {Write(r, <<typeInt64>> \o BigEndian(value.i, 8))}
    [] value.k = "int" ->
         IF ~value.i.neg
         THEN IF LeqMaxUint32(value.i)
              THEN encodeValue(poc, Integer("uint32", value.i), r, depth)
              ELSE encodeValue(poc, Integer("uint64", value.i), r, depth)
         ELSE IF GeqMinInt32(value.i)
              THEN encodeValue(poc, Integer("int32", value.i), r, depth)
              ELSE encodeValue(poc, Integer("int64", value.i), r, depth)
    [] value.k = "uint" ->
         IF LeqMaxUint32(value.i)
         THEN encodeValue(poc, Integer("uint32", value.i), r, depth)
         ELSE encodeValue(poc, Integer("uint64", value.i), r, depth)
    [] value.k = "float32" -> {Write(r, <<typeFloat32>> \o value.f)}
    [] value.k = "float64" -> {Write(r, <<typeFloat64>> \o value.f)}
    [] value.k = "string" -> {encodeString(poc, value.s, r)}
    [] value.k = "list" -> encodeArray(poc, value.l, r, depth)
    [] value.k = "map" -> encodeMap(poc, value.m, r, depth)
    [] value.k = "bytes" -> {encodeBytes(poc, value.d, r)}
    [] value.k = "bool" -> {Write(r, IF value.b THEN <<typeTrue>> ELSE <<typeFalse>>)}
    [] value.k = "nil" -> {Write(r, <<typeNil>>)}
    [] OTHER -> encodeWithReflection(poc, value, r, depth)

\* dump: the bytes of the buffer, or nil with the error.  buf and log keep
\* what the encoder had written and done when it returned.
dump(poc, value) ==
  {[err |-> r.err, bytes |-> IF r.err # "" THEN <<>> ELSE r.buf,
    buf |-> r.buf, log |-> r.log]
   : r \in encodeValue(poc, value, NewBuffer, 0)}

(***************************************************************************)
(* The decoder, src/pkg/decode_poc.go.  A bytes.Reader over data is data   *)
(* with the count pos of the bytes read so far.  A decoder function        *)
(* returns the value val, the error err ("" for none), the reader's pos    *)
(* and a log of what it did, in order: each function entered (with its     *)
(* depth argument, -1 where it has none, and the length or count n it was  *)
(* given), each type byte read (op "tag", n the byte) and each make of a   *)
(* slice (op "make", n its length); `at` is the reader's pos then.         *)
(***************************************************************************)
Ret(val, errType, pos, log) == [val |-> val, err |-> errType, pos |-> pos, log |-> log]

Event(op, depth, n, pos) == [op |-> op, depth |-> depth, n |-> n, at |-> pos]

\* A faulty binary.Read, which moves past the end of the data when it fails.
binaryReadOverrun(data, pos, w) ==
  IF pos + w <= Len(data)
  THEN [ok |-> TRUE, bs |-> SubSeq(data, pos + 1, pos + w), pos |-> pos + w]
  ELSE [ok |-> FALSE, bs |-> <<>>, pos |-> pos + w]

\* binary.Read of a fixed-size field of w bytes: io.ReadFull takes what is
\* left when fewer than w bytes remain, and fails.
binaryRead(data, pos, w) ==
  IF pos + w <= Len(data)
  THEN [ok |-> TRUE, bs |-> SubSeq(data, pos + 1, pos + w), pos |-> pos + w]
  ELSE [ok |-> FALSE, bs |-> <<>>, pos |-> Len(data)]

\* reader.Read(buf) with len(buf) = length: io.EOF at the end of the data,
\* also for an empty buf; otherwise the bytes that are there, up to length.
readerRead(data, pos, length) ==
  IF pos >= Len(data) THEN [n |-> 0, eof |-> TRUE, bs |-> <<>>, pos |-> pos]
  ELSE LET n == IF length <= Len(data) - pos THEN length ELSE Len(data) - pos IN
       [n |-> n, eof |-> FALSE, bs |-> SubSeq(data, pos + 1, pos + n), pos |-> pos + n]

\* A faulty decodeString, which takes a short read for the whole string.
decodeStringShort(poc, data, pos, log0, length) ==
  LET log1 == Append(log0, Event("decodeString", -1, length, pos)) IN
  IF length = 0 THEN Ret(Str(<<>>), "", pos, log1)
  ELSE LET log2 == Append(log1, Event("make", -1, length, pos))
           rd == readerRead(data, pos, length)
       IN
       IF rd.eof THEN Ret(Str(<<>>), "InsufficientData", rd.pos, log2)
       ELSE IF ~utf8Valid(rd.bs) THEN Ret(Str(<<>>), "Utf8Error", rd.pos, log2)
       ELSE Ret(Str(rd.bs), "", rd.pos, log2)

decodeString(poc, data, pos, log0, length) ==
  LET log1 == Append(log0, Event("decodeString", -1, length, pos)) IN
  IF length = 0 THEN Ret(Str(<<>>), "", pos, log1)
  ELSE LET log2 == Append(log1, Event("make", -1, length, pos))
           rd == readerRead(data, pos, length)
       IN
       IF rd.eof \/ rd.n # length THEN Ret(Str(<<>>), "InsufficientData", rd.pos, log2)
       ELSE IF ~utf8Valid(rd.bs) THEN Ret(Str(<<>>), "Utf8Error", rd.pos, log2)
       ELSE Ret(Str(rd.bs), "", rd.pos, log2)

decodeBytes(poc, data, pos, log0, length) ==
  LET log1 == Append(log0, Event("decodeBytes", -1, length, pos))
      log2 == Append(log1, Event("make", -1, length, pos))
      rd == readerRead(data, pos, length)
  IN
  IF rd.eof \/ rd.n # length THEN Ret(NilBytes, "InsufficientData", rd.pos, log2)
  ELSE Ret(Bytes(rd.bs), "", rd.pos, log2)

\* The Go type of an integer of w bytes.
UIntKind(w) == CASE w = 1 -> "uint8" [] w = 2 -> "uint16" [] w = 4 -> "uint32" [] OTHER -> "uint64"

IntKind(w) == CASE w = 1 -> "int8" [] w = 2 -> "int16" [] w = 4 -> "int32" [] OTHER -> "int64"

FloatKind(w) == IF w = 4 THEN "float32" ELSE "float64"

\* The value binary.Read stores into a variable of type `kind` from bs.
FixedValue(kind, bs) ==
  CASE kind = "uint" -> Integer(UIntKind(Len(bs)), FromUnsigned(bs))
    [] kind = "int" -> Integer(IntKind(Len(bs)), FromSigned(bs))
    [] OTHER -> Float(FloatKind(Len(bs)), bs)

\* A fixed-width integer or float: binary.Read into a variable of w bytes.
decodeFixed(data, pos, log, w, kind) ==
  LET rd == binaryRead(data, pos, w) IN
  IF ~rd.ok THEN Ret(Nil, "InsufficientData", rd.pos, log)
  ELSE Ret(FixedValue(kind, rd.bs), "", rd.pos, log)

RECURSIVE decodeValue(_, _, _, _, _)
RECURSIVE decodeItems(_, _, _, _, _, _, _, _)
RECURSIVE decodeEntries(_, _, _, _, _, _, _, _)

\* The loop of decodeArray: arr holds the i items decoded so far.
\* A faulty loop of decodeArray, which hands back the items decoded before
\* the one that failed.
decodeItemsPartial(poc, data, pos, log, length, depth, i, arr) ==
  IF i >= length THEN Ret(List(arr), "", pos, log)
  ELSE LET item == decodeValue(poc, data, pos, log, depth + 1) IN
       IF item.err # "" THEN Ret(List(arr), item.err, item.pos, item.log)
       ELSE decodeItems(poc, data, item.pos, item.log, length, depth, i + 1,
                        Append(arr, item.val))

decodeItems(poc, data, pos, log, length, depth, i, arr) ==
  IF i >= length THEN Ret(List(arr), "", pos, log)
  ELSE LET item == decodeValue(poc, data, pos, log, depth + 1) IN
       IF item.err # "" THEN Ret(NilSlice, item.err, item.pos, item.log)
       ELSE decodeItems(poc, data, item.pos, item.log, length, depth, i + 1,
                        Append(arr, item.val))

\* A faulty decodeArray, which makes the slice before it checks the count.
decodeArrayLate(poc, data, pos, log0, length, depth) ==
  LET log1 == Append(log0, Event("decodeArray", depth, length, pos))
      log2 == Append(log1, Event("make", depth, length, pos))
  IN
  IF length > poc.maxContainerItems THEN Ret(NilSlice, "DataTooLarge", pos, log2)
  ELSE decodeItems(poc, data, pos, log2, length, depth, 0, <<>>)

decodeArray(poc, data, pos, log0, length, depth) ==
  LET log1 == Append(log0, Event("decodeArray", depth, length, pos)) IN
  IF length > poc.maxContainerItems THEN Ret(NilSlice, "DataTooLarge", pos, log1)
  ELSE decodeItems(poc, data, pos, Append(log1, Event("make", depth, length, pos)),
                   length, depth, 0, <<>>)

\* A faulty loop of decodeMap, which files a key that is no string under "".
decodeEntriesCoerce(poc, data, pos, log, length, depth, i, obj) ==
  IF i >= length THEN Ret(Map(obj), "", pos, log)
  ELSE LET keyValue == decodeValue(poc, data, pos, log, depth + 1) IN
       IF keyValue.err # "" THEN Ret(NilMap, keyValue.err, keyValue.pos, keyValue.log)
       ELSE LET key == IF keyValue.val.k = "string" THEN keyValue.val.s ELSE <<>>
                value == decodeValue(poc, data, keyValue.pos, keyValue.log, depth + 1)
            IN
            IF value.err # "" THEN Ret(NilMap, value.err, value.pos, value.log)
            ELSE decodeEntries(poc, data, value.pos, value.log, length, depth, i + 1,
                               Put(obj, key, value.val))

\* A faulty loop of decodeMap, which decodes a key at the depth of its map.
decodeEntriesFlatKeys(poc, data, pos, log, length, depth, i, obj) ==
  IF i >= length THEN Ret(Map(obj), "", pos, log)
  ELSE LET keyValue == decodeValue(poc, data, pos, log, depth) IN
       IF keyValue.err # "" THEN Ret(NilMap, keyValue.err, keyValue.pos, keyValue.log)
       ELSE IF keyValue.val.k # "string"
       THEN Ret(NilMap, "UnsupportedType", keyValue.pos, keyValue.log)
       ELSE LET value == decodeValue(poc, data, keyValue.pos, keyValue.log, depth + 1) IN
            IF value.err # "" THEN Ret(NilMap, value.err, value.pos, value.log)
            ELSE decodeEntries(poc, data, value.pos, value.log, length, depth, i + 1,
                               Put(obj, keyValue.val.s, value.val))

\* The loop of decodeMap: obj holds the entries of the first i pairs.
decodeEntries(poc, data, pos, log, length, depth, i, obj) ==
  IF i >= length THEN Ret(Map(obj), "", pos, log)
  ELSE LET keyValue == decodeValue(poc, data, pos, log, depth + 1) IN
       IF keyValue.err # "" THEN Ret(NilMap, keyValue.err, keyValue.pos, keyValue.log)
       ELSE IF keyValue.val.k # "string"
       THEN Ret(NilMap, "UnsupportedType", keyValue.pos, keyValue.log)
       ELSE LET value == decodeValue(poc, data, keyValue.pos, keyValue.log, depth + 1) IN
            IF value.err # "" THEN Ret(NilMap, value.err, value.pos, value.log)
            ELSE decodeEntries(poc, data, value.pos, value.log, length, depth, i + 1,
                               Put(obj, keyValue.val.s, value.val))

decodeMap(poc, data, pos, log0, length, depth) ==
  LET log1 == Append(log0, Event("decodeMap", depth, length, pos)) IN
  IF length > poc.maxContainerItems THEN Ret(NilMap, "DataTooLarge", pos, log1)
  ELSE decodeEntries(poc, data, pos, log1, length, depth, 0, EmptyMap)

\* A faulty IsFixString, which takes 0x40 for a FixString of 16 bytes.
IsFixStringWide(typeByte) == typeByte >= typeFixStringBase /\ typeByte <= typeFixStringBase + 16

IsFixString(typeByte) == typeByte >= typeFixStringBase /\ typeByte <= typeFixStringBase + 15

IsFixList(typeByte) == typeByte >= typeFixListBase /\ typeByte <= typeFixListBase + 15

IsFixMap(typeByte) == typeByte >= typeFixMapBase /\ typeByte <= typeFixMapBase + 15

\* The String32 case's own check of the length against maxStringSize.
String32TooLarge(poc, length) == length > poc.maxStringSize

Len8(bs) == bs[1]

decodeValue(poc, data, pos0, log0, depth) ==
  LET logE == Append(log0, Event("decodeValue", depth, 0, pos0)) IN
  IF depth > poc.maxRecursionDepth THEN Ret(Nil, "MaxRecursionDepth", pos0, logE)
  ELSE IF pos0 >= Len(data) THEN Ret(Nil, "InsufficientData", pos0, logE)
  ELSE
  LET typeByte == data[pos0 + 1]
      pos == pos0 + 1
      log == Append(logE, Event("tag", depth, typeByte, pos0))
      \* binary.Read of a length field of w bytes, and its failure
      field(w) == binaryRead(data, pos, w)
      short == Ret(Nil, "InsufficientData", Len(data), log)
  IN
  CASE typeByte = typeUInt8 -> decodeFixed(data, pos, log, 1, "uint")
    [] typeByte = typeUInt16 -> decodeFixed(data, pos, log, 2, "uint")
    [] typeByte = typeUInt32 -> decodeFixed(data, pos, log, 4, "uint")
    [] typeByte = typeUInt64 -> decodeFixed(data, pos, log, 8, "uint")
    [] typeByte = typeInt8 -> decodeFixed(data, pos, log, 1, "int")
    [] typeByte = typeInt16 -> decodeFixed(data, pos, log, 2, "int")
    [] typeByte = typeInt32 -> decodeFixed(data, pos, log, 4, "int")
    [] typeByte = typeInt64 -> decodeFixed(data, pos, log, 8, "int")
    [] typeByte = typeFloat32 -> decodeFixed(data, pos, log, 4, "float")
    [] typeByte = typeFloat64 -> decodeFixed(data, pos, log, 8, "float")
    [] typeByte = typeTrue -> Ret(Bool(TRUE), "", pos, log)
    [] typeByte = typeFalse -> Ret(Bool(FALSE), "", pos, log)
    [] typeByte = typeNil -> Ret(Nil, "", pos, log)
    [] OTHER ->
         IF IsFixString(typeByte)
         THEN decodeString(poc, data, pos, log, typeByte - typeFixStringBase)
         ELSE IF typeByte = typeString16
         THEN IF ~field(2).ok THEN short
              ELSE decodeString(poc, data, field(2).pos, log, Len16(field(2).bs))
         ELSE IF typeByte = typeString32
         THEN IF ~field(4).ok THEN short
              ELSE IF String32TooLarge(poc, Len32(field(4).bs))
              THEN Ret(Nil, "DataTooLarge", field(4).pos, log)
              ELSE decodeString(poc, data, field(4).pos, log, Len32(field(4).bs))
         ELSE IF IsFixList(typeByte)
         THEN decodeArray(poc, data, pos, log, typeByte - typeFixListBase, depth)
         ELSE IF typeByte = typeList16
         THEN IF ~field(2).ok THEN short
              ELSE decodeArray(poc, data, field(2).pos, log, Len16(field(2).bs), depth)
         ELSE IF typeByte = typeList32
         THEN IF ~field(4).ok THEN short
              ELSE decodeArray(poc, data, field(4).pos, log, Len32(field(4).bs), depth)
         ELSE IF IsFixMap(typeByte)
         THEN decodeMap(poc, data, pos, log, typeByte - typeFixMapBase, depth)
         ELSE IF typeByte = typeMap16
         THEN IF ~field(2).ok THEN short
              ELSE decodeMap(poc, data, field(2).pos, log, Len16(field(2).bs), depth)
         ELSE IF typeByte = typeMap32
         THEN IF ~field(4).ok THEN short
              ELSE decodeMap(poc, data, field(4).pos, log, Len32(field(4).bs), depth)
         ELSE IF typeByte = typeBytes8
         THEN IF ~field(1).ok THEN short
              ELSE decodeBytes(poc, data, field(1).pos, log, Len8(field(1).bs))
         ELSE IF typeByte = typeBytes16
         THEN IF ~field(2).ok THEN short
              ELSE decodeBytes(poc, data, field(2).pos, log, Len16(field(2).bs))
         ELSE IF typeByte = typeBytes32
         THEN IF ~field(4).ok THEN short
              ELSE decodeBytes(poc, data, field(4).pos, log, Len32(field(4).bs))
         ELSE Ret(Nil, "UnknownTypeId", pos, log)

\* A faulty load, without the case of the empty input.
loadAlways(poc, data) == decodeValue(poc, data, 0, <<>>, 0)

load(poc, data) ==
  IF Len(data) = 0 THEN Ret(Nil, "", 0, <<>>)
  ELSE decodeValue(poc, data, 0, <<>>, 0)

(***************************************************************************)
(* The inputs of the model.                                                *)
(***************************************************************************)
\* Lists and maps nest up to MaxNest deep in the values to encode.
MaxNest == 3
\* The codec instances limit the depth to 0..MaxDepthLimit.
MaxDepthLimit == 2
\* A hand-made input carries up to MaxTail bytes after its tag and length.
MaxTail == 3

Big(bs) == [neg |-> FALSE, mag |-> bs]

Ascii(n) == [i \in 1..n |-> 96 + i]

Scalars ==
  { Nil, Bool(TRUE), Bool(FALSE),
    Integer("uint8", Num(0)), Integer("uint8", Num(255)),
    Integer("uint16", Num(258)), Integer("uint16", Num(65535)),
    Integer("uint32", Num(65536)), Integer("uint32", Big(<<0, 0, 0, 0, 255, 255, 255, 255>>)),
    Integer("uint64", Num(1)), Integer("uint64", Big(<<255, 255, 255, 255, 255, 255, 255, 254>>)),
    Integer("int8", Num(-128)), Integer("int8", Num(-1)), Integer("int8", Num(127)),
    Integer("int16", Num(-32768)), Integer("int16", Num(-2)), Integer("int16", Num(258)),
    Integer("int32", [neg |-> TRUE, mag |-> <<0, 0, 0, 0, 128, 0, 0, 0>>]),
    Integer("int32", Num(-100000)), Integer("int32", Num(2147483647)),
    Integer("int64", [neg |-> TRUE, mag |-> <<128, 0, 0, 0, 0, 0, 0, 0>>]),
    Integer("int64", Num(-1)), Integer("int64", Big(<<127, 255, 255, 255, 255, 255, 255, 255>>)),
    Float("float32", <<64, 73, 15, 219>>), Float("float32", <<0, 0, 0, 0>>),
    Float("float64", <<64, 9, 33, 251, 84, 68, 45, 24>>),
    Float("float64", <<127, 248, 0, 0, 0, 0, 0, 1>>),
    Str(<<>>), Str(<<97>>), Str(<<195, 169>>), Str(<<97, 98>>), Str(<<97, 98, 99>>),
    Str(<<228, 184, 150>>), Str(Ascii(4)), Str(Ascii(15)), Str(Ascii(16)), Str(Ascii(17)),
    Str(<<255>>), Str(<<195>>), Str(<<97, 128>>), Str(<<237, 160, 128>>),
    Bytes(<<>>), Bytes(<<0>>), Bytes(<<1, 2, 3>>), Bytes(<<255, 0>>), Bytes(Ascii(17)) }

\* Values of the dynamic types only the encoder's native-integer and
\* reflection branches see.
HostValues ==
  { Integer("int", Num(42)), Integer("int", Num(-50)), Integer("int", Num(0)),
    Integer("int", Big(<<0, 0, 0, 0, 255, 255, 255, 255>>)),
    Integer("int", Big(<<0, 0, 0, 1, 0, 0, 0, 0>>)),
    Integer("int", [neg |-> TRUE, mag |-> <<0, 0, 0, 0, 128, 0, 0, 0>>]),
    Integer("int", [neg |-> TRUE, mag |-> <<0, 0, 0, 0, 128, 0, 0, 1>>]),
    Integer("int", Num(-1)), Integer("int", Num(255)), Integer("int", Num(-128)),
    Integer("int", Big(<<127, 255, 255, 255, 255, 255, 255, 255>>)),
    Integer("int", [neg |-> TRUE, mag |-> <<128, 0, 0, 0, 0, 0, 0, 0>>]),
    Integer("uint", Num(7)), Integer("uint", Big(<<0, 0, 0, 1, 0, 0, 0, 0>>)),
    Integer("uint", Num(0)), Integer("uint", Big(<<0, 0, 0, 0, 255, 255, 255, 255>>)),
    Integer("uint", Big(<<255, 255, 255, 255, 255, 255, 255, 255>>)),
    [k |-> "namedbool", b |-> TRUE], [k |-> "namedbool", b |-> FALSE],
    [k |-> "slice", l |-> <<Integer("int", Num(1)), Integer("int", Num(2))>>],
    [k |-> "slice", l |-> <<Str(<<97>>)>>],
    [k |-> "slice", l |-> <<Bool(TRUE), Bool(FALSE)>>],
    List(<<[k |-> "namedbool", b |-> FALSE], Bool(TRUE)>>),
    [k |-> "array", l |-> <<Integer("int", Num(1))>>],
    [k |-> "keyedmap", key |-> "string", m |-> (<<97>> :> Integer("int", Num(1)))],
    [k |-> "keyedmap", key |-> "int", m |-> EmptyMap],
    [k |-> "keyedmap", key |-> "bool", m |-> EmptyMap],
    List(<<Nil, [k |-> "keyedmap", key |-> "int", m |-> EmptyMap]>>),
    Map(<<97>> :> [k |-> "keyedmap", key |-> "int", m |-> EmptyMap]),
    [k |-> "struct"] }

\* The members the sample lists and maps are made of.
Members ==
  { Nil, Bool(TRUE), Integer("uint8", Num(7)), Str(<<97, 98>>), Str(<<97, 98, 99>>),
    Bytes(<<>>), Bytes(<<1, 2, 3>>) }

Keys == { <<>>, <<97>>, <<97, 98, 99>>, <<255>> }

MapMembers == { Nil, Str(<<97, 98, 99>>), Bytes(<<>>) }

Flat ==
  { List(<<>>), Map(EmptyMap), Map(<<97>> :> Bool(TRUE)), Map(<<>> :> Bool(FALSE)),
    List(<<Integer("uint32", Num(1)), Integer("uint32", Num(2)), Integer("uint32", Num(3))>>),
    List(<<Map((<<97>> :> Nil) @@ (<<>> :> Bool(TRUE))), Str(<<97>>)>>),
    List(<<Nil, Nil, Nil>>), List([i \in 1..15 |-> Nil]), List([i \in 1..16 |-> Bool(i = 1)]),
    Map((<<>> :> Nil) @@ (<<97>> :> Bool(TRUE)) @@ (<<97, 98>> :> Bytes(<<>>))) }
  \cup { List(<<x>>) : x \in Members }
  \cup { List(<<x, y>>) : x \in Members, y \in Members }
  \cup { Map(key :> x) : key \in Keys, x \in MapMembers }
  \cup { Map((<<97>> :> x) @@ (key :> y)) : key \in Keys \ {<<97>>}, x \in MapMembers, y \in {Nil, Bytes(<<>>)} }

\* The values of `seeds` under n more lists or one-entry maps.
RECURSIVE Nested(_, _)
Nested(seeds, n) ==
  IF n = 0 THEN seeds
  ELSE LET inner == Nested(seeds, n - 1) IN
       {List(<<x>>) : x \in inner} \cup {Map(<<97>> :> x) : x \in inner}

NestSeeds == { Nil, Str(<<97, 98, 99>>), Bytes(<<>>), List(<<>>), Map(EmptyMap) }

Deep ==
  UNION { Nested(NestSeeds, n) : n \in 2..MaxNest }
  \cup { List(<<Str(<<97, 98, 99>>), List(<<List(<<Nil>>)>>)>>),
         List(<<List(<<Nil, Nil>>), Bytes(<<>>)>>),
         Map((<<97>> :> List(<<Nil>>)) @@ (<<97, 98, 99>> :> Map(<<>> :> Nil))),
         List(<<Map(<<97, 98, 99>> :> Nil)>>),
         Map(<<97>> :> Map(<<97, 98, 99>> :> Str(<<97, 98>>))) }

GoValues == Scalars \cup HostValues \cup Flat \cup Deep

Configs ==
  { WithLimits(d, sc[1], sc[2]) : d \in 0..MaxDepthLimit, sc \in {<<2, 1>>, <<3, 2>>, <<16, 16>>} }
  \cup { NewPoculum, WithLimits(-1, -1, -1) }

\* Hand-made inputs: every byte as a tag before a few tails, and every
\* String, List, Map and Bytes tier with the declared lengths DeclaredLengths
\* before every tail over TailBytes of up to MaxTail bytes.
TailBytes == { 0, 49, 81, 97, 163 }

RECURSIVE Tails(_)
Tails(n) ==
  IF n = 0 THEN {<<>>}
  ELSE LET shorter == Tails(n - 1) IN
       shorter \cup {Append(t, b) : t \in {u \in shorter : Len(u) = n - 1}, b \in TailBytes}

FewTails ==
  { <<>>, <<0>>, <<0, 0, 0, 1, 97>>, <<0, 2, 97, 98>>, <<163, 163>>,
    <<255, 255, 255, 255, 255, 255, 255, 255, 255>> }

DeclaredLengths == { 0, 1, 2, 3, 4, 17 }

Headers ==
  { <<base + n>> : base \in {typeFixStringBase, typeFixListBase, typeFixMapBase},
                   n \in {m \in DeclaredLengths : m <= 15} }
  \cup { <<tag>> \o U16(n) : tag \in {typeString16, typeList16, typeMap16, typeBytes16},
                            n \in DeclaredLengths \cup {300} }
  \cup { <<tag>> \o U32(n) : tag \in {typeString32, typeList32, typeMap32, typeBytes32},
                            n \in DeclaredLengths \cup {70000} }
  \cup { <<tag, 255, 255, 255, 255>> : tag \in {typeString32, typeList32, typeMap32, typeBytes32} }
  \cup { <<typeBytes8, n>> : n \in DeclaredLengths \cup {255} }

\* Encodings put where a map has its key.
KeyEncodings ==
  { <<typeUInt8, 7>>, <<typeUInt32, 0, 0, 0, 1>>, <<typeInt8, 255>>, <<typeFloat32, 0, 0, 0, 0>>,
    <<typeTrue>>, <<typeFalse>>, <<typeNil>>, <<typeBytes8, 1, 0>>, <<typeBytes8, 0>>,
    <<typeFixListBase>>, <<typeFixMapBase>>, <<typeFixStringBase + 1, 97>>,
    <<typeString16, 0, 1, 97>> }

\* Maps of one and two entries, at the root and in a list, with each of
\* KeyEncodings as the last key.
EntryStreams ==
  { before \o key \o <<typeNil>> :
      before \in { <<typeFixMapBase + 1>>, <<typeFixListBase + 1, typeFixMapBase + 1>>,
                   <<typeFixMapBase + 2, typeFixStringBase + 1, 97, typeNil>>,
                   <<typeMap16, 0, 1>> },
      key \in KeyEncodings }

\* Maps in which a key comes more than once, with different values.
DuplicateKeyStreams ==
  { <<typeFixMapBase + 2, 49, 97, typeTrue, 49, 97, typeFalse>>,
    <<typeFixMapBase + 2, 49, 97, typeTrue, typeString16, 0, 1, 97, typeNil>>,
    <<typeFixMapBase + 3, 49, 97, typeTrue, 49, 98, typeNil, 49, 97, typeFalse>>,
    <<typeFixMapBase + 3, 48, typeUInt8, 1, 48, typeUInt8, 2, 48, typeUInt8, 3>>,
    <<typeFixMapBase + 2, 48, typeNil, 48, typeFixListBase + 1, typeTrue>>,
    <<typeFixListBase + 1, typeFixMapBase + 2, 49, 97, typeUInt8, 7, 49, 97, typeNil>>,
    <<typeMap16, 0, 2, 49, 97, typeNil, 49, 97, typeTrue>>,
    <<typeFixMapBase + 2, 49, 97, typeTrue, 49, 97>>,
    <<typeFixMapBase + 2, 49, 97, typeTrue, 49, 97, typeTrue + 4>> }

Crafted ==
  { <<>> }
  \cup EntryStreams
  \cup DuplicateKeyStreams
  \cup { <<t>> \o tail : t \in Byte, tail \in FewTails }
  \cup { h \o tail : h \in Headers, tail \in Tails(MaxTail) }

(***************************************************************************)
(* The state: one codec instance poc, the value handed to dump, the bytes  *)
(* on the wire and where they come from, and what dump and load returned.  *)
(***************************************************************************)
VARIABLES poc, value, wire, origin, dumped, loaded, pc

vars == <<poc, value, wire, origin, dumped, loaded, pc>>

NoDump == [err |-> "-", bytes |-> <<>>, buf |-> <<>>, log |-> <<>>]

NoLoad == Ret(Nil, "-", 0, <<>>)

Init ==
  /\ poc \in Configs
  /\ dumped = NoDump
  /\ loaded = NoLoad
  /\ \/ /\ value \in GoValues
        /\ wire = <<>>
        /\ origin = "value"
        /\ pc = "encode"
     \/ /\ value = Nil
        /\ wire \in Crafted
        /\ origin = "crafted"
        /\ pc = "decode"

\* poc.dump(value): on success the bytes go on the wire.
Dump ==
  /\ pc = "encode"
  /\ \E r \in dump(poc, value) :
       /\ dumped' = r
       /\ wire' = r.bytes
       /\ origin' = IF r.err = "" THEN "dump" ELSE origin
       /\ pc' = IF r.err = "" THEN "decode" ELSE "done"
  /\ UNCHANGED <<poc, value, loaded>>

\* The bytes on the wire come from a peer that encoded value with the
\* default limits (DumpPoculum).
PeerDump ==
  /\ pc = "encode"
  /\ \E r \in dump(NewPoculum, value) :
       /\ r.err = ""
       /\ wire' = r.bytes
  /\ origin' = "peer"
  /\ pc' = "decode"
  /\ UNCHANGED <<poc, value, dumped, loaded>>

\* The wire delivers only a non-empty proper prefix of what dump wrote.
Truncate ==
  /\ pc = "decode"
  /\ origin = "dump"
  /\ \E n \in 1..(Len(wire) - 1) : wire' = SubSeq(wire, 1, n)
  /\ origin' = "prefix"
  /\ UNCHANGED <<poc, value, dumped, loaded, pc>>

\* The bytes dump wrote arrive with a few more bytes after them.
Trailing == { <<0>>, <<163>>, <<49, 97>>, <<255, 255, 255>> }

Trail ==
  /\ pc = "decode"
  /\ origin = "dump"
  /\ \E t \in Trailing : wire' = wire \o t
  /\ origin' = "trailing"
  /\ UNCHANGED <<poc, value, dumped, loaded, pc>>

\* poc.load(wire)
Load ==
  /\ pc = "decode"
  /\ loaded' = load(poc, wire)
  /\ pc' = "done"
  /\ UNCHANGED <<poc, value, wire, origin, dumped>>

Next == Dump \/ PeerDump \/ Truncate \/ Trail \/ Load

Spec == Init /\ [][Next]_vars

(***************************************************************************)
(* What the claims speak of.                                               *)
(***************************************************************************)
RecursionLimit == "MaxRecursionDepth"

MaxOf(S) == CHOOSE x \in S : \A y \in S : y <= x

\* The content of a list-like or map-like value.
IsListLike(v) == v.k \in {"list", "slice"}

IsMapLike(v) == v.k \in {"map", "keyedmap"}

\* The Value variants of the data model: no native int, no reflected type.
RECURSIVE IsValue(_)
IsValue(v) ==
  CASE v.k \in {"nil", "bool", "uint8", "uint16", "uint32", "uint64", "int8", "int16",
                "int32", "int64", "float32", "float64", "string", "bytes"} -> TRUE
    [] v.k = "list" -> \A i \in DOMAIN v.l : IsValue(v.l[i])
    [] v.k = "map" -> \A key \in DOMAIN v.m : IsValue(v.m[key])
    [] OTHER -> FALSE

\* The nesting depth of a value: the largest number of List/Map boundaries
\* between the root and one of its nodes (a scalar, a key, a list, a map).
RECURSIVE Depth(_)
Depth(v) ==
  IF IsListLike(v)
  THEN IF v.l = <<>> THEN 0 ELSE 1 + MaxOf({Depth(v.l[i]) : i \in DOMAIN v.l})
  ELSE IF IsMapLike(v)
  THEN IF DOMAIN v.m = {} THEN 0 ELSE 1 + MaxOf({Depth(v.m[key]) : key \in DOMAIN v.m})
  ELSE 0

\* v breaks no limit of the codec instance p other than the depth limit, and
\* holds nothing the encoder refuses.
RECURSIVE WithinSizes(_, _)
WithinSizes(p, v) ==
  CASE v.k = "string" -> Len(v.s) <= p.maxStringSize /\ utf8Valid(v.s)
    [] IsListLike(v) ->
         /\ Len(v.l) <= p.maxContainerItems
         /\ \A i \in DOMAIN v.l : WithinSizes(p, v.l[i])
    [] IsMapLike(v) ->
         /\ v.k = "keyedmap" => v.key = "string"
         /\ Cardinality(DOMAIN v.m) <= p.maxContainerItems
         /\ \A key \in DOMAIN v.m :
              Len(key) <= p.maxStringSize /\ utf8Valid(key) /\ WithinSizes(p, v.m[key])
    [] v.k \in {"array", "struct"} -> FALSE
    [] OTHER -> TRUE

Dumped == dumped.err # "-"

Loaded == loaded.err # "-"

\* The i-th call or step logged is the last one: the codec did nothing after it.
IsLast(log, i) == i = Len(log)

(***************************************************************************)
(* C1.  Round trip: for every limits configuration and every Value v for   *)
(* which dump(v) succeeds, load(dump(v)) succeeds under the same limits    *)
(* and returns a value equal to v (same variant and width at every node,   *)
(* lists in order, maps as sets of entries).                               *)
(***************************************************************************)
RoundTrip ==
  (pc = "done" /\ origin = "dump" /\ IsValue(value))
    => (loaded.err = "" /\ loaded.val = value)

(***************************************************************************)
(* C2.  The depth ceiling, with maxDepth = D.  A call of encodeValue or    *)
(* decodeValue for a node more than D List/Map boundaries below the root   *)
(* fails with RecursionLimit and does nothing else, and no other call      *)
(* raises that error.  So dump never accepts a value nested deeper than D, *)
(* and fails with RecursionLimit when the value breaks no other limit;     *)
(* load never returns a value nested deeper than D, and fails on the bytes *)
(* a peer wrote for a value nested deeper than D, with RecursionLimit when *)
(* the value breaks no other limit.                                        *)
(***************************************************************************)
DepthCheckedAtEveryNode(log, err, op) ==
  /\ \A i \in DOMAIN log :
       (log[i].op = op /\ log[i].depth > poc.maxRecursionDepth)
         => (IsLast(log, i) /\ err = RecursionLimit)
  /\ err = RecursionLimit
       => (log # <<>> /\ log[Len(log)].op = op
           /\ log[Len(log)].depth > poc.maxRecursionDepth)

DepthCeiling ==
  /\ Dumped =>
       /\ DepthCheckedAtEveryNode(dumped.log, dumped.err, "encodeValue")
       /\ Depth(value) > poc.maxRecursionDepth => dumped.err # "" /\ dumped.bytes = <<>>
       /\ (Depth(value) > poc.maxRecursionDepth /\ WithinSizes(poc, value))
            => dumped.err = RecursionLimit
  /\ Loaded =>
       /\ DepthCheckedAtEveryNode(loaded.log, loaded.err, "decodeValue")
       /\ loaded.err = "" => Depth(loaded.val) <= poc.maxRecursionDepth \/ wire = <<>>
       /\ (origin = "peer" /\ Depth(value) > poc.maxRecursionDepth)
            => /\ loaded.err # ""
               /\ WithinSizes(poc, value) => loaded.err = RecursionLimit

\* A value nested to D+1 was refused by dump, and the bytes a peer wrote for
\* it were refused by load.
DepthCeilingWitness ==
  /\ poc.maxRecursionDepth = 1
  /\ value = List(<<List(<<Nil>>)>>)
  /\ \/ Dumped /\ dumped.err = RecursionLimit
     \/ origin = "peer" /\ Loaded /\ loaded.err = RecursionLimit

\* The node header the tag table of the format reads at offset `at` of data:
\* the kind of a String, List, Map or Bytes tag ("other" for the rest),
\* whether its length field is all there, the length or count n it declares
\* and the offset `end` where the header ends.
Declared(data, at) ==
  LET t == data[at + 1]
      have(w) == at + 1 + w <= Len(data)
      fld(w) == SubSeq(data, at + 2, at + 1 + w)
      fix(kind, base) == [kind |-> kind, known |-> TRUE, n |-> t - base, end |-> at + 1]
      wide(kind, w) ==
        [kind |-> kind, known |-> have(w),
         n |-> IF ~have(w) THEN 0
               ELSE IF w = 1 THEN fld(1)[1]
               ELSE IF w = 2 THEN 256 * fld(2)[1] + fld(2)[2]
               ELSE IF fld(4)[1] >= 128 THEN 2147483647
               ELSE ((256 * fld(4)[1] + fld(4)[2]) * 256 + fld(4)[3]) * 256 + fld(4)[4],
         end |-> at + 1 + w]
  IN
  CASE t \in 48..63 -> fix("string", 48)
    [] t = 65 -> wide("string", 2)
    [] t = 66 -> wide("string", 4)
    [] t \in 80..95 -> fix("list", 80)
    [] t = 97 -> wide("list", 2)
    [] t = 98 -> wide("list", 4)
    [] t \in 112..127 -> fix("map", 112)
    [] t = 129 -> wide("map", 2)
    [] t = 130 -> wide("map", 4)
    [] t = 145 -> wide("bytes", 1)
    [] t = 146 -> wide("bytes", 2)
    [] t = 147 -> wide("bytes", 4)
    [] OTHER -> [kind |-> "other", known |-> FALSE, n |-> 0, end |-> at + 1]

\* The tags load read, each with the header that starts there.
TagsRead == {i \in DOMAIN loaded.log : loaded.log[i].op = "tag"}

HeaderOf(i) == Declared(wire, loaded.log[i].at)

\* What a failed load hands back beside the error.
ZeroValues == {Nil, Str(<<>>), NilSlice, NilMap, NilBytes}

(***************************************************************************)
(* C3.  Decode enforces the string ceiling for every String tier: a        *)
(* FixString, String16 or String32 node whose declared length is above     *)
(* maxStringBytes fails with DataTooLarge before any payload byte is       *)
(* consumed.                                                               *)
(***************************************************************************)
StringCeilingOnDecode ==
  Loaded =>
    \A i \in TagsRead :
      (HeaderOf(i).kind = "string" /\ HeaderOf(i).known
         /\ HeaderOf(i).n > poc.maxStringSize)
        => (loaded.err = "DataTooLarge" /\ loaded.pos = HeaderOf(i).end)

(***************************************************************************)
(* C4.  Bytes values are bounded by the string/bytes ceiling on both       *)
(* paths: encoding a Bytes value longer than maxStringBytes fails with     *)
(* DataTooLarge, decoding a Bytes8/16/32 node that declares more fails     *)
(* with DataTooLarge, and no over-limit Bytes value is emitted or          *)
(* returned.                                                               *)
(***************************************************************************)
BytesCeiling ==
  /\ Dumped =>
       /\ \A i \in DOMAIN dumped.log :
            (dumped.log[i].op = "encodeBytes" /\ dumped.log[i].n > poc.maxStringSize)
              => dumped.err = "DataTooLarge"
       /\ (value.k = "bytes" /\ Len(value.d) > poc.maxStringSize) => dumped.bytes = <<>>
  /\ Loaded =>
       /\ \A i \in TagsRead :
            (HeaderOf(i).kind = "bytes" /\ HeaderOf(i).known
               /\ HeaderOf(i).n > poc.maxStringSize)
              => loaded.err = "DataTooLarge"
       /\ loaded.val.k = "bytes" => Len(loaded.val.d) <= poc.maxStringSize

(***************************************************************************)
(* C5.  Encode enforces the string ceiling.  Every call of encodeString    *)
(* (for a String value or a Map key, at any depth) with more than          *)
(* maxStringBytes bytes fails with DataTooLarge before a byte of the       *)
(* string, its tag included, is written, and dump returns no bytes; a call *)
(* with at most maxStringBytes bytes never raises DataTooLarge.  So a      *)
(* value that breaks no other limit is refused with DataTooLarge exactly   *)
(* when one of its strings or keys is longer than maxStringBytes, counted  *)
(* in bytes, and is accepted otherwise.                                    *)
(***************************************************************************)
\* Some String or Map key of v has more than p.maxStringSize bytes.
RECURSIVE HasLongString(_, _)
HasLongString(p, v) ==
  CASE v.k = "string" -> Len(v.s) > p.maxStringSize
    [] IsListLike(v) -> \E i \in DOMAIN v.l : HasLongString(p, v.l[i])
    [] IsMapLike(v) ->
         \E key \in DOMAIN v.m : Len(key) > p.maxStringSize \/ HasLongString(p, v.m[key])
    [] OTHER -> FALSE

\* v breaks no limit of poc other than, perhaps, the string ceiling.
OnlyStringsAtIssue(v) ==
  /\ Depth(v) <= poc.maxRecursionDepth
  /\ WithinSizes([poc EXCEPT !.maxStringSize = 2147483647], v)

EncodeStringCeiling ==
  Dumped =>
    /\ \A i \in DOMAIN dumped.log :
         dumped.log[i].op = "encodeString" =>
           IF dumped.log[i].n > poc.maxStringSize
           THEN /\ IsLast(dumped.log, i)
                /\ dumped.err = "DataTooLarge"
                /\ Len(dumped.buf) = dumped.log[i].at
                /\ dumped.bytes = <<>>
           ELSE ~(IsLast(dumped.log, i) /\ dumped.err = "DataTooLarge")
    /\ OnlyStringsAtIssue(value) =>
         dumped.err = (IF HasLongString(poc, value) THEN "DataTooLarge" ELSE "")

\* A key of three bytes in a nested map was refused under a ceiling of two
\* bytes, after the tags before it were written.
EncodeStringCeilingWitness ==
  /\ Dumped
  /\ poc.maxStringSize = 2
  /\ value = Map(<<97>> :> Map(<<97, 98, 99>> :> Str(<<97, 98>>)))
  /\ dumped.err = "DataTooLarge"
  /\ dumped.buf = <<113, 49, 97, 113>>

(***************************************************************************)
(* C6.  The container-count ceiling on both paths.  Every call of          *)
(* encodeArray or encodeMap with more than maxContainerItems elements or   *)
(* entries fails with DataTooLarge before a byte of that container (tag,   *)
(* count or child) is written.  Every List or Map node read, of any tier,  *)
(* that declares more than maxContainerItems fails with DataTooLarge       *)
(* before the array or map is made and before a child is decoded.          *)
(***************************************************************************)
Count(v) == IF IsListLike(v) THEN Len(v.l) ELSE Cardinality(DOMAIN v.m)

ContainerCeiling ==
  /\ Dumped =>
       /\ \A i \in DOMAIN dumped.log :
            (dumped.log[i].op \in {"encodeArray", "encodeMap"}
               /\ dumped.log[i].n > poc.maxContainerItems)
              => /\ IsLast(dumped.log, i)
                 /\ dumped.err = "DataTooLarge"
                 /\ Len(dumped.buf) = dumped.log[i].at
                 /\ dumped.bytes = <<>>
       /\ (value.k \in {"list", "map", "slice"} /\ poc.maxRecursionDepth >= 0
             /\ Count(value) > poc.maxContainerItems)
            => (dumped.err = "DataTooLarge" /\ dumped.buf = <<>>)
  /\ Loaded =>
       \A i \in TagsRead :
         (HeaderOf(i).kind \in {"list", "map"} /\ HeaderOf(i).known
            /\ HeaderOf(i).n > poc.maxContainerItems)
           => /\ loaded.err = "DataTooLarge"
              /\ loaded.pos = HeaderOf(i).end
              /\ IsLast(loaded.log, i + 1)
              /\ loaded.log[i + 1].op \in {"decodeArray", "decodeMap"}
              /\ loaded.val \in {NilSlice, NilMap}

\* A List16 that declares 49 elements was refused inside a list, under a
\* ceiling of 16.
ContainerCeilingWitness ==
  /\ Loaded
  /\ poc.maxContainerItems = 16
  /\ wire = <<81, 97, 0, 49>>
  /\ loaded.err = "DataTooLarge"
  /\ loaded.pos = 4

(***************************************************************************)
(* C7.  No allocation ahead of validation: the decoder makes storage sized *)
(* by a declared String or Bytes length or List count only after that      *)
(* number was checked against the configured limit and against the bytes   *)
(* still unread, so a declared length or count above the remaining input   *)
(* never causes an allocation of that size.                                *)
(***************************************************************************)
LimitOf(op) == IF op = "decodeArray" THEN poc.maxContainerItems ELSE poc.maxStringSize

NoAllocationAheadOfValidation ==
  Loaded =>
    \A i \in DOMAIN loaded.log :
      loaded.log[i].op = "make" =>
        /\ loaded.log[i].n <= Len(wire) - loaded.log[i].at
        /\ loaded.log[i].n <= LimitOf(loaded.log[i - 1].op)

(***************************************************************************)
(* C8.  Truncation is always detected: for every value that encodes and    *)
(* every non-empty proper prefix of its encoding, load of the prefix fails *)
(* with InsufficientData and returns no shorter or partial value; load of  *)
(* 0x41 0x00 fails with InsufficientData.                                  *)
(***************************************************************************)
TruncationDetected ==
  pc = "done" =>
    /\ origin = "prefix" => (loaded.err = "InsufficientData" /\ loaded.val \in ZeroValues)
    /\ (wire = <<65, 0>> /\ poc.maxRecursionDepth >= 0)
         => (loaded.err = "InsufficientData" /\ loaded.val \in ZeroValues)

\* The encoding of a list was cut inside its second string.
TruncationDetectedWitness ==
  /\ pc = "done"
  /\ origin = "prefix"
  /\ value = List(<<Str(<<97, 98>>), Str(<<97, 98, 99>>)>>)
  /\ wire = <<82, 50, 97, 98, 51, 97, 98>>
  /\ loaded.err = "InsufficientData"

(***************************************************************************)
(* C9.  Empty input: load of a zero-length buffer returns Null with no     *)
(* error under every limits configuration.  Only the top-level call does   *)
(* so: where decodeValue is called within the depth limit and no byte is   *)
(* left, which happens for nested elements only, it fails with             *)
(* InsufficientData.                                                       *)
(***************************************************************************)
EmptyInput ==
  Loaded =>
    /\ wire = <<>> => (loaded.err = "" /\ loaded.val = Nil /\ loaded.log = <<>>)
    /\ \A i \in DOMAIN loaded.log :
         (loaded.log[i].op = "decodeValue" /\ loaded.log[i].at >= Len(wire)
            /\ loaded.log[i].depth <= poc.maxRecursionDepth)
           => /\ loaded.log[i].depth >= 1
              /\ IsLast(loaded.log, i)
              /\ loaded.err = "InsufficientData"

\* An empty buffer was loaded by an instance whose depth limit refuses
\* every node.
EmptyInputWitness ==
  /\ Loaded
  /\ wire = <<>>
  /\ poc = WithLimits(-1, -1, -1)
  /\ loaded.val = Nil

(***************************************************************************)
(* C10.  Unknown tags are rejected: every byte outside the tag table that  *)
(* is read as a node tag makes load fail with UnknownTypeId whatever       *)
(* follows, and every byte inside the table is dispatched to exactly one   *)
(* kind.                                                                   *)
(***************************************************************************)
TagTable ==
  { <<"uint8", 1, 1>>, <<"uint16", 2, 2>>, <<"uint32", 3, 3>>, <<"uint64", 4, 4>>,
    <<"int8", 17, 17>>, <<"int16", 18, 18>>, <<"int32", 19, 19>>, <<"int64", 20, 20>>,
    <<"float32", 33, 33>>, <<"float64", 34, 34>>,
    <<"string", 48, 63>>, <<"string", 65, 66>>,
    <<"list", 80, 95>>, <<"list", 97, 98>>,
    <<"map", 112, 127>>, <<"map", 129, 130>>,
    <<"bytes", 145, 147>>, <<"bool", 160, 161>>, <<"nil", 163, 163>> }

KindsOf(t) == {row[1] : row \in {r \in TagTable : r[2] <= t /\ t <= r[3]}}

\* The helper a tag of a kind with a length is handed to.
HelperOf(kind) ==
  CASE kind = "string" -> "decodeString"
    [] kind = "list" -> "decodeArray"
    [] kind = "map" -> "decodeMap"
    [] kind = "bytes" -> "decodeBytes"
    [] OTHER -> "decodeValue"

UnknownTagsRejected ==
  Loaded =>
    /\ \A i \in TagsRead :
         LET t == loaded.log[i].n
             last == IsLast(loaded.log, i)
         IN
         /\ t = wire[loaded.log[i].at + 1]
         /\ loaded.log[i].depth <= poc.maxRecursionDepth
         /\ IF KindsOf(t) = {}
            THEN last /\ loaded.err = "UnknownTypeId" /\ loaded.pos = loaded.log[i].at + 1
            ELSE /\ Cardinality(KindsOf(t)) = 1
                 /\ ~(last /\ loaded.err = "UnknownTypeId")
                 /\ ~last => \E kind \in KindsOf(t) : loaded.log[i + 1].op = HelperOf(kind)
                 /\ (loaded.log[i].depth = 0 /\ loaded.err = "") => loaded.val.k \in KindsOf(t)
    /\ loaded.err = "UnknownTypeId"
         => (loaded.log # <<>> /\ loaded.log[Len(loaded.log)].op = "tag")

\* 0x00 was rejected as the tag of the element of a list, with bytes after
\* it.
UnknownTagsRejectedWitness ==
  /\ Loaded
  /\ wire = <<81, 0, 163, 163>>
  /\ loaded.err = "UnknownTypeId"
  /\ loaded.pos = 2

(***************************************************************************)
(* C11.  UTF-8 validity on both paths.  A value that breaks no limit is    *)
(* refused by dump with Utf8Error exactly when one of its Strings or Map   *)
(* keys is not valid UTF-8; the error is raised by encodeString before a   *)
(* byte of that string is written, and dump returns no bytes.  A String    *)
(* node within the string ceiling whose payload is all there and is not    *)
(* valid UTF-8 makes load fail with Utf8Error, with no string returned.    *)
(* Every String and every Map key load returns is valid UTF-8.             *)
(***************************************************************************)
\* Some String or Map key of v is not valid UTF-8.
RECURSIVE HasInvalidString(_)
HasInvalidString(v) ==
  CASE v.k = "string" -> ~utf8Valid(v.s)
    [] IsListLike(v) -> \E i \in DOMAIN v.l : HasInvalidString(v.l[i])
    [] IsMapLike(v) ->
         \E key \in DOMAIN v.m : ~utf8Valid(key) \/ HasInvalidString(v.m[key])
    [] OTHER -> FALSE

\* v keeps the byte lengths and the counts within the limits of p.
RECURSIVE WithinCounts(_, _)
WithinCounts(p, v) ==
  CASE v.k = "string" -> Len(v.s) <= p.maxStringSize
    [] IsListLike(v) ->
         Len(v.l) <= p.maxContainerItems /\ \A i \in DOMAIN v.l : WithinCounts(p, v.l[i])
    [] IsMapLike(v) ->
         /\ Cardinality(DOMAIN v.m) <= p.maxContainerItems
         /\ \A key \in DOMAIN v.m : Len(key) <= p.maxStringSize /\ WithinCounts(p, v.m[key])
    [] OTHER -> TRUE

\* The payload the header read at the i-th step declares, when it is all
\* there.
PayloadComplete(i) == HeaderOf(i).n <= Len(wire) - HeaderOf(i).end

PayloadOf(i) == SubSeq(wire, HeaderOf(i).end + 1, HeaderOf(i).end + HeaderOf(i).n)

Utf8OnBothPaths ==
  /\ Dumped =>
       /\ (IsValue(value) /\ Depth(value) <= poc.maxRecursionDepth /\ WithinCounts(poc, value))
            => dumped.err = (IF HasInvalidString(value) THEN "Utf8Error" ELSE "")
       /\ dumped.err = "Utf8Error"
            => /\ HasInvalidString(value)
               /\ dumped.bytes = <<>>
               /\ dumped.log[Len(dumped.log)].op = "encodeString"
               /\ Len(dumped.buf) = dumped.log[Len(dumped.log)].at
  /\ Loaded =>
       /\ \A i \in TagsRead :
            (HeaderOf(i).kind = "string" /\ HeaderOf(i).known
               /\ HeaderOf(i).n <= poc.maxStringSize
               /\ PayloadComplete(i) /\ ~utf8Valid(PayloadOf(i)))
              => /\ loaded.err = "Utf8Error"
                 /\ IsLast(loaded.log, i + 2)
                 /\ loaded.val \in ZeroValues
       /\ loaded.err = "" => ~HasInvalidString(loaded.val)

\* A map whose key is the byte 0xFF was refused by dump after the tag of the
\* map was written, and a FixString holding 0xA3 was refused by load inside
\* a list.
Utf8OnBothPathsWitness ==
  \/ /\ Dumped
     /\ value = Map(<<255>> :> Nil)
     /\ dumped.err = "Utf8Error"
     /\ dumped.buf = <<113>>
  \/ /\ Loaded
     /\ wire = <<81, 49, 163, 0>>
     /\ loaded.err = "Utf8Error"

(***************************************************************************)
(* C12.  Map keys are never coerced.  Where load reads a Map node within   *)
(* the count ceiling and, its earlier entries decoded, a key decodes to a  *)
(* value of another kind than String, load fails with UnsupportedType at   *)
(* the end of that key and returns no map; no other input raises that      *)
(* error.  A value that breaks no limit and holds a host map whose key     *)
(* type is not a string kind is refused by dump with UnsupportedType and   *)
(* no bytes.                                                               *)
(***************************************************************************)
\* Where, decoding `left` entries of wire from offset pos, a key decodes to
\* a value that is no String: the offset after that key; -1 if there is none.
RECURSIVE NonStringKeyEnd(_, _, _)
NonStringKeyEnd(pos, depth, left) ==
  IF left = 0 THEN -1
  ELSE LET key == decodeValue(poc, wire, pos, <<>>, depth + 1) IN
       IF key.err # "" THEN -1
       ELSE IF key.val.k # "string" THEN key.pos
       ELSE LET val == decodeValue(poc, wire, key.pos, <<>>, depth + 1) IN
            IF val.err # "" THEN -1 ELSE NonStringKeyEnd(val.pos, depth, left - 1)

\* Some host map of v has a key type that is not a string kind.
RECURSIVE HasForeignKeys(_)
HasForeignKeys(v) ==
  CASE v.k = "keyedmap" ->
         v.key # "string" \/ \E key \in DOMAIN v.m : HasForeignKeys(v.m[key])
    [] v.k = "map" -> \E key \in DOMAIN v.m : HasForeignKeys(v.m[key])
    [] IsListLike(v) -> \E i \in DOMAIN v.l : HasForeignKeys(v.l[i])
    [] OTHER -> FALSE

\* v holds no array and no struct, which the encoder does not take.
RECURSIVE NoOtherHostType(_)
NoOtherHostType(v) ==
  CASE v.k \in {"array", "struct"} -> FALSE
    [] IsListLike(v) -> \A i \in DOMAIN v.l : NoOtherHostType(v.l[i])
    [] IsMapLike(v) -> \A key \in DOMAIN v.m : NoOtherHostType(v.m[key])
    [] OTHER -> TRUE

OnlyKeysAtIssue(v) ==
  /\ Depth(v) <= poc.maxRecursionDepth
  /\ WithinCounts(poc, v)
  /\ ~HasInvalidString(v)
  /\ NoOtherHostType(v)

MapKeysNotCoerced ==
  /\ Loaded =>
       /\ \A i \in TagsRead :
            (HeaderOf(i).kind = "map" /\ HeaderOf(i).known
               /\ HeaderOf(i).n <= poc.maxContainerItems
               /\ NonStringKeyEnd(HeaderOf(i).end, loaded.log[i].depth, HeaderOf(i).n) >= 0)
              => /\ loaded.err = "UnsupportedType"
                 /\ loaded.pos
                      = NonStringKeyEnd(HeaderOf(i).end, loaded.log[i].depth, HeaderOf(i).n)
                 /\ loaded.val \in ZeroValues
       /\ loaded.err = "UnsupportedType"
            => \E i \in TagsRead :
                 /\ HeaderOf(i).kind = "map"
                 /\ NonStringKeyEnd(HeaderOf(i).end, loaded.log[i].depth, HeaderOf(i).n) >= 0
  /\ Dumped =>
       /\ OnlyKeysAtIssue(value)
            => dumped.err = (IF HasForeignKeys(value) THEN "UnsupportedType" ELSE "")
       /\ (OnlyKeysAtIssue(value) /\ HasForeignKeys(value)) => dumped.bytes = <<>>

\* The second key of a map was the integer 7, and load refused the map
\* right after it.
MapKeysNotCoercedWitness ==
  /\ Loaded
  /\ wire = <<114, 49, 97, 163, 1, 7, 163>>
  /\ loaded.err = "UnsupportedType"
  /\ loaded.pos = 6

(***************************************************************************)
(* C13.  All-or-nothing results.  Whenever load returns an error, the      *)
(* value it returns with it is the zero value of the failing function's    *)
(* result type (nil, "", a nil slice, map or byte slice), never a list,    *)
(* map or string holding what was decoded before the failure.  Whenever    *)
(* dump returns an error it returns no bytes, whatever the encoder had     *)
(* written to its buffer before the failing node.                          *)
(***************************************************************************)
ErrorKinds ==
  {"MaxRecursionDepth", "DataTooLarge", "Utf8Error", "UnsupportedType",
   "InsufficientData", "UnknownTypeId"}

AllOrNothing ==
  /\ Loaded =>
       /\ loaded.err \in ErrorKinds \cup {""}
       /\ loaded.err # "" => loaded.val \in ZeroValues
  /\ Dumped =>
       /\ dumped.err \in ErrorKinds \cup {""}
       /\ dumped.err # "" => dumped.bytes = <<>>
       /\ dumped.err = "" => dumped.bytes = dumped.buf

\* The first element of a list of two was decoded, the second has an
\* unknown tag: load returned the error and a nil slice.
AllOrNothingWitness ==
  /\ Loaded
  /\ wire = <<82, 163, 0>>
  /\ loaded.err = "UnknownTypeId"
  /\ loaded.val = NilSlice

\* dump failed after the encoder had written to its buffer.
AllOrNothingOnDump ==
  /\ Dumped
  /\ dumped.err # ""
  /\ dumped.buf # <<>>
  /\ dumped.bytes = <<>>

(***************************************************************************)
(* C14.  Minimal-width tag selection.  For a String of n bytes, a List of  *)
(* n elements and a Map of n entries the encoder writes the Fix tag        *)
(* base + n when n <= 15, the 16-bit tag and n as a uint16 when            *)
(* 15 < n <= 0xFFFF, and the 32-bit tag and n as a uint32 otherwise: at    *)
(* every length of TierLengths, for the header of every string, list and   *)
(* map a dump has written, and at the start of every dump of one.          *)
(***************************************************************************)
TierLengths == {0, 1, 10, 15, 16, 20, 255, 256, 65535, 65536, 70000, 16777216, 2147483647}

\* The narrowest header for n: tiers is <<Fix base, 16-bit tag, 32-bit tag>>.
MinimalHeader(tiers, n) ==
  IF n <= 15 THEN <<tiers[1] + n>>
  ELSE IF n <= 65535 THEN <<tiers[2], n \div 256, n % 256>>
  ELSE <<tiers[3], n \div 16777216, (n \div 65536) % 256, (n \div 256) % 256, n % 256>>

TiersOf(op) ==
  CASE op \in {"encodeString", "string"} -> <<48, 65, 66>>
    [] op \in {"encodeArray", "list", "slice"} -> <<80, 97, 98>>
    [] op \in {"encodeMap", "map", "keyedmap"} -> <<112, 129, 130>>

\* bs holds the header head from offset at on.
HasHeaderAt(bs, at, head) ==
  Len(bs) >= at + Len(head) /\ SubSeq(bs, at + 1, at + Len(head)) = head

SizeOf(v) == IF v.k = "string" THEN Len(v.s) ELSE Count(v)

MinimalWidth ==
  /\ \A n \in TierLengths :
       /\ StringHeader(n) = MinimalHeader(TiersOf("string"), n)
       /\ ListHeader(n) = MinimalHeader(TiersOf("list"), n)
       /\ MapHeader(n) = MinimalHeader(TiersOf("map"), n)
  /\ Dumped =>
       /\ \A i \in DOMAIN dumped.log :
            (dumped.log[i].op \in {"encodeString", "encodeArray", "encodeMap"}
               /\ ~(IsLast(dumped.log, i) /\ dumped.err # ""))
              => HasHeaderAt(dumped.buf, dumped.log[i].at,
                             MinimalHeader(TiersOf(dumped.log[i].op), dumped.log[i].n))
       /\ (dumped.err = "" /\ value.k \in {"string", "list", "slice", "map", "keyedmap"})
            => HasHeaderAt(dumped.bytes, 0, MinimalHeader(TiersOf(value.k), SizeOf(value)))

\* A list of 15 elements was written with the FixList tag 0x5F.
MinimalWidthWitness ==
  /\ Dumped
  /\ value = List([i \in 1..15 |-> Nil])
  /\ dumped.err = ""
  /\ dumped.bytes[1] = 95
  /\ Len(dumped.bytes) = 16

(***************************************************************************)
(* C15.  Cross-tier decode acceptance.  Wherever load reads a String,      *)
(* List, Map or Bytes node whose declared length or count respects the     *)
(* limit, whatever tier carries it, decoding the node gives what decoding  *)
(* the same content behind the minimal header gives: the same value or the *)
(* same error.  A String node of any tier within the ceiling, at the root, *)
(* whose payload is all there and valid UTF-8 decodes to the String of     *)
(* that payload.                                                           *)
(***************************************************************************)
\* The narrowest header of a Bytes of n bytes.
MinimalBytesHeader(n) ==
  IF n <= 255 THEN <<145, n>>
  ELSE IF n <= 65535 THEN <<146, n \div 256, n % 256>>
  ELSE <<147, n \div 16777216, (n \div 65536) % 256, (n \div 256) % 256, n % 256>>

MinimalHeaderOf(h) ==
  IF h.kind = "bytes" THEN MinimalBytesHeader(h.n) ELSE MinimalHeader(TiersOf(h.kind), h.n)

\* The node read at the i-th step with its header replaced by the minimal one.
Reheaded(i) ==
  MinimalHeaderOf(HeaderOf(i)) \o SubSeq(wire, HeaderOf(i).end + 1, Len(wire))

RespectsLimit(i) ==
  HeaderOf(i).n <= (IF HeaderOf(i).kind \in {"list", "map"}
                    THEN poc.maxContainerItems ELSE poc.maxStringSize)

\* The header read at the i-th step is of a wider tier than the minimal one.
IsWide(i) == HeaderOf(i).end - loaded.log[i].at > Len(MinimalHeaderOf(HeaderOf(i)))

CrossTierDecode ==
  Loaded =>
    \A i \in TagsRead :
      (HeaderOf(i).kind # "other" /\ HeaderOf(i).known /\ RespectsLimit(i))
        => LET here == decodeValue(poc, wire, loaded.log[i].at, <<>>, loaded.log[i].depth)
               minimal == decodeValue(poc, Reheaded(i), 0, <<>>, loaded.log[i].depth)
           IN
           /\ here.val = minimal.val
           /\ here.err = minimal.err
           /\ Len(wire) - here.pos = Len(Reheaded(i)) - minimal.pos
           /\ loaded.log[i].depth = 0 => (loaded.val = here.val /\ loaded.err = here.err)
           /\ (loaded.log[i].depth = 0 /\ HeaderOf(i).kind = "string"
                 /\ PayloadComplete(i) /\ utf8Valid(PayloadOf(i)))
                => (loaded.err = "" /\ loaded.val = Str(PayloadOf(i)))

\* A String32 of three bytes was decoded to the string of the three bytes.
CrossTierDecodeWitness ==
  /\ Loaded
  /\ wire = <<66, 0, 0, 0, 3, 97, 97, 97>>
  /\ loaded.err = ""
  /\ IsWide(2)
  /\ loaded.val = Str(<<97, 97, 97>>)

(***************************************************************************)
(* C16.  Boolean encoding.  dump(true) is the single byte 0xA0 and         *)
(* dump(false) the single byte 0xA1, for a bool and for a value of a named *)
(* bool type, which takes the reflection path; a list or slice of bools is *)
(* its header followed by one such byte per element, and a one-entry map   *)
(* with a bool ends with that byte.  No integer is encoded to either byte  *)
(* string.  load of a buffer that starts with 0xA0 or 0xA1 returns the     *)
(* Bool true or false.                                                     *)
(***************************************************************************)
IsBool(v) == v.k \in {"bool", "namedbool"}

BoolByte(v) == IF v.b THEN 160 ELSE 161

IntegerKinds ==
  {"uint8", "uint16", "uint32", "uint64", "int8", "int16", "int32", "int64", "int", "uint"}

BytesOf(v) == {r.bytes : r \in {x \in dump(poc, v) : x.err = ""}}

\* The encodings of the items from the i-th on, one after the other.
RECURSIVE Layouts(_, _)
Layouts(items, i) ==
  IF i > Len(items) THEN {<<>>}
  ELSE {first \o rest : first \in BytesOf(items[i]), rest \in Layouts(items, i + 1)}

ListLayout ==
  (Dumped /\ dumped.err = "") =>
    /\ IsListLike(value) =>
         /\ dumped.bytes
              \in {MinimalHeader(TiersOf("list"), Len(value.l)) \o body
                     : body \in Layouts(value.l, 1)}
         /\ BytesOf(value)
              = {MinimalHeader(TiersOf("list"), Len(value.l)) \o body
                   : body \in Layouts(value.l, 1)}
    /\ value = List(<<Integer("uint32", Num(1)), Integer("uint32", Num(2)),
                      Integer("uint32", Num(3))>>)
         => dumped.bytes = <<83, 3, 0, 0, 0, 1, 3, 0, 0, 0, 2, 3, 0, 0, 0, 3>>

\* The UInt32 list [1, 2, 3] was dumped.
ListLayoutWitness ==
  /\ Dumped
  /\ dumped.err = ""
  /\ value = List(<<Integer("uint32", Num(1)), Integer("uint32", Num(2)),
                    Integer("uint32", Num(3))>>)
  /\ Len(dumped.bytes) = 16

(***************************************************************************)
(* C18.  Fixed-width integer layout.  dump of a UInt8/16/32/64 or          *)
(* Int8/16/32/64 value x is the tag of its kind and exactly 1/2/4/8 bytes  *)
(* that hold x big-endian, in two's complement for the signed kinds, and   *)
(* nothing else.  load of a buffer that starts with such a tag and has the *)
(* payload consumes the tag and exactly that many bytes and returns the    *)
(* integer they hold, of the tag's width and signedness; with less than    *)
(* the payload it fails with InsufficientData.                             *)
(***************************************************************************)
\* kind, tag, payload bytes, signed.
FixedIntegers ==
  { <<"uint8", 1, 1, FALSE>>, <<"uint16", 2, 2, FALSE>>, <<"uint32", 3, 4, FALSE>>,
    <<"uint64", 4, 8, FALSE>>, <<"int8", 17, 1, TRUE>>, <<"int16", 18, 2, TRUE>>,
    <<"int32", 19, 4, TRUE>>, <<"int64", 20, 8, TRUE>> }

\* The byte sequences p and q of one length, as unsigned numbers, add up to
\* 2^(8 * Len(p)): carry is what the bytes after the j-th have carried.
RECURSIVE AddsToZero(_, _, _, _)
AddsToZero(p, q, j, carry) ==
  IF j = 0 THEN carry = 1
  ELSE (p[j] + q[j] + carry) % 256 = 0
       /\ AddsToZero(p, q, j - 1, (p[j] + q[j] + carry) \div 256)

\* The payload p holds the integer x: the magnitude itself for x >= 0, and
\* the two's complement 2^(8 * Len(p)) - |x| for x < 0.
Holds(p, x, signed) ==
  LET w == Len(p) IN
  /\ Len(x.mag) = 8
  /\ \A j \in 1..(8 - w) : x.mag[j] = 0
  /\ IF x.neg
     THEN signed /\ p[1] >= 128 /\ AddsToZero(p, SubSeq(x.mag, 9 - w, 8), w, 0)
     ELSE p = SubSeq(x.mag, 9 - w, 8) /\ (signed => p[1] < 128)

IntegerLayout ==
  \A row \in FixedIntegers :
    LET kind == row[1]
        tag == row[2]
        w == row[3]
    IN
    /\ (Dumped /\ poc.maxRecursionDepth >= 0 /\ value.k = kind) =>
         /\ dumped.err = ""
         /\ Len(dumped.bytes) = 1 + w
         /\ dumped.bytes[1] = tag
         /\ Holds(SubSeq(dumped.bytes, 2, 1 + w), value.i, row[4])
    /\ (Loaded /\ poc.maxRecursionDepth >= 0 /\ wire # <<>> /\ wire[1] = tag) =>
         IF Len(wire) >= 1 + w
         THEN /\ loaded.err = ""
              /\ loaded.pos = 1 + w
              /\ loaded.val.k = kind
              /\ Holds(SubSeq(wire, 2, 1 + w), loaded.val.i, row[4])
              /\ (origin = "dump" /\ value.k = kind) => loaded.val = value
         ELSE loaded.err = "InsufficientData" /\ loaded.val = Nil

\* The Int16 -2 was dumped to 0x12 0xFF 0xFE, and loaded from it.
IntegerLayoutWitness ==
  /\ pc = "done"
  /\ origin = "dump"
  /\ value = Integer("int16", Num(-2))
  /\ wire = <<18, 255, 254>>
  /\ loaded.val = value

(***************************************************************************)
(* C19.  Native-integer classification.  dump of a native int n is the     *)
(* encoding of n as UInt32 if 0 <= n <= 2^32-1, as UInt64 if n > 2^32-1,   *)
(* as Int32 if -2^31 <= n < 0 and as Int64 if n < -2^31; dump of a native  *)
(* uint is the encoding as UInt32 up to 2^32-1 and as UInt64 beyond.  The  *)
(* payload holds n itself, also at 2^32-1, 2^32, -1, -2^31 and -2^31-1,    *)
(* and load returns n with the kind of the range.                          *)
(***************************************************************************)
\* a < b on byte sequences of one length, as unsigned numbers.
Below(a, b) == \E j \in DOMAIN a : a[j] < b[j] /\ \A i \in 1..(j - 1) : a[i] = b[i]

AtMost(a, b) == a = b \/ Below(a, b)

\* The kind of the range a native integer lies in.
NativeKind(x) ==
  IF ~x.neg
  THEN IF AtMost(x.mag, <<0, 0, 0, 0, 255, 255, 255, 255>>) THEN "uint32" ELSE "uint64"
  ELSE IF AtMost(x.mag, <<0, 0, 0, 0, 128, 0, 0, 0>>) THEN "int32" ELSE "int64"

\* The boundaries 2^32-1, 2^32, -1, -2^31 and -2^31-1, each with its bytes.
NativeBoundaries ==
  { <<Big(<<0, 0, 0, 0, 255, 255, 255, 255>>), <<3, 255, 255, 255, 255>>>>,
    <<Big(<<0, 0, 0, 1, 0, 0, 0, 0>>), <<4, 0, 0, 0, 1, 0, 0, 0, 0>>>>,
    <<Num(-1), <<19, 255, 255, 255, 255>>>>,
    <<[neg |-> TRUE, mag |-> <<0, 0, 0, 0, 128, 0, 0, 0>>], <<19, 128, 0, 0, 0>>>>,
    <<[neg |-> TRUE, mag |-> <<0, 0, 0, 0, 128, 0, 0, 1>>],
      <<20, 255, 255, 255, 255, 127, 255, 255, 255>>>> }

NativeClassification ==
  (Dumped /\ poc.maxRecursionDepth >= 0 /\ value.k \in {"int", "uint"}) =>
    /\ value.k = "uint" => ~value.i.neg
    /\ dumped.err = ""
    /\ \E row \in FixedIntegers :
         /\ row[1] = NativeKind(value.i)
         /\ dumped.bytes[1] = row[2]
         /\ Len(dumped.bytes) = 1 + row[3]
         /\ Holds(SubSeq(dumped.bytes, 2, 1 + row[3]), value.i, row[4])
    /\ \A at \in NativeBoundaries : value.i = at[1] => dumped.bytes = at[2]
    /\ (Loaded /\ origin = "dump")
         => (loaded.err = "" /\ loaded.val = Integer(NativeKind(value.i), value.i))

\* The native int -2^31 was dumped as an Int32 and loaded as one.
NativeClassificationWitness ==
  /\ pc = "done"
  /\ origin = "dump"
  /\ value = Integer("int", [neg |-> TRUE, mag |-> <<0, 0, 0, 0, 128, 0, 0, 0>>])
  /\ wire = <<19, 128, 0, 0, 0>>
  /\ loaded.val.k = "int32"

(***************************************************************************)
(* C20.  Optimal integer encoding, as claimed: for a native int or uint    *)
(* the encoder selects the smallest integer tag able to hold the value, so *)
(* that no tag of UInt8/16/32/64 and Int8/16/32/64 with a narrower payload *)
(* could hold the same number, and 42 has a payload of one byte.           *)
(***************************************************************************)
\* The integer x is in the range of the kind of row.
CanHold(row, x) ==
  LET w == row[3]
      low == SubSeq(x.mag, 9 - w, 8)
  IN
  /\ \A j \in 1..(8 - w) : x.mag[j] = 0
  /\ IF x.neg
     THEN row[4] /\ AtMost(low, [j \in 1..w |-> IF j = 1 THEN 128 ELSE 0])
     ELSE row[4] => low[1] < 128

RECURSIVE Arrangements(_)
Arrangements(S) ==
  IF S = {} THEN {<<>>}
  ELSE UNION {{<<x>> \o rest : rest \in Arrangements(S \ {x})} : x \in S}

\* The pairs of obj in the order `order`, from the i-th on.
RECURSIVE PairLayouts(_, _, _)
PairLayouts(obj, order, i) ==
  IF i > Len(order) THEN {<<>>}
  ELSE {MinimalHeader(TiersOf("string"), Len(order[i])) \o order[i] \o val \o rest
          : val \in BytesOf(obj[order[i]]), rest \in PairLayouts(obj, order, i + 1)}

MapLayouts(obj) ==
  UNION {{MinimalHeader(TiersOf("map"), Cardinality(DOMAIN obj)) \o body
            : body \in PairLayouts(obj, order, 1)}
         : order \in Arrangements(DOMAIN obj)}

MapOrderIndependence ==
  (Dumped /\ dumped.err = "" /\ value.k = "map") =>
    /\ dumped.bytes \in MapLayouts(value.m)
    /\ BytesOf(value) = MapLayouts(value.m)
    /\ \A a \in BytesOf(value), b \in BytesOf(value) : Len(a) = Len(b)
    /\ \A b \in BytesOf(value) : load(poc, b).err = "" /\ load(poc, b).val = value

(***************************************************************************)
(* Concurrent use of one instance: one goroutine runs dump(value) while    *)
(* another runs load(wire) on the same poc.  Each call keeps its buffer or *)
(* reader and its log to itself (dumped, loaded), advances by one logged   *)
(* step at a time, reading the limits of poc as they are then, and then    *)
(* returns; origin keeps the instance as it was configured.                *)
(***************************************************************************)
\* A faulty method, which counts the depth down in the receiver's field.
ReceiverCounting(p) == [p EXCEPT !.maxRecursionDepth = @ - 1]

\* The receiver after a step of a method: no method assigns to a field of
\* poc.
Receiver(p) == p

ConcValues ==
  { Nil, Str(<<97, 98, 99>>), List(<<List(<<Nil>>)>>), List(<<Nil, Nil, Nil>>),
    Map((<<97>> :> Nil) @@ (<<>> :> Bool(TRUE))), Integer("int", Num(42)),
    Map(<<97>> :> Map(<<97, 98, 99>> :> Str(<<97, 98>>))) }

ConcWires ==
  { <<>>, <<82, 163, 0>>, <<81, 81, 163>>, <<66, 0, 0, 0, 3, 97, 97, 97>>,
    <<113, 49, 97, 160>>, <<145, 0>>, <<114, 49, 97, 163, 49, 97, 160>> }

ConcInit ==
  /\ poc \in Configs
  /\ origin = poc
  /\ value \in ConcValues
  /\ wire \in ConcWires
  /\ dumped = NoDump
  /\ loaded = NoLoad
  /\ pc = [dump |-> "run", load |-> "run"]

\* dump takes its next step, along one of the iteration orders that agree
\* with the steps it has taken.
DumpAdvance ==
  /\ pc.dump = "run"
  /\ \E r \in dump(poc, value) :
       /\ Len(dumped.log) < Len(r.log)
       /\ SubSeq(r.log, 1, Len(dumped.log)) = dumped.log
       /\ dumped' = [NoDump EXCEPT !.log = SubSeq(r.log, 1, Len(dumped.log) + 1)]
  /\ poc' = Receiver(poc)
  /\ UNCHANGED <<value, wire, origin, loaded, pc>>

DumpReturn ==
  /\ pc.dump = "run"
  /\ \E r \in dump(poc, value) :
       /\ r.log = dumped.log
       /\ dumped' = r
  /\ pc' = [pc EXCEPT !.dump = "done"]
  /\ poc' = Receiver(poc)
  /\ UNCHANGED <<value, wire, origin, loaded>>

LoadAdvance ==
  /\ pc.load = "run"
  /\ Len(loaded.log) < Len(load(poc, wire).log)
  /\ SubSeq(load(poc, wire).log, 1, Len(loaded.log)) = loaded.log
  /\ loaded' = [NoLoad EXCEPT !.log = SubSeq(load(poc, wire).log, 1, Len(loaded.log) + 1)]
  /\ poc' = Receiver(poc)
  /\ UNCHANGED <<value, wire, origin, dumped, pc>>

LoadReturn ==
  /\ pc.load = "run"
  /\ load(poc, wire).log = loaded.log
  /\ loaded' = load(poc, wire)
  /\ pc' = [pc EXCEPT !.load = "done"]
  /\ poc' = Receiver(poc)
  /\ UNCHANGED <<value, wire, origin, dumped>>

ConcNext == DumpAdvance \/ DumpReturn \/ LoadAdvance \/ LoadReturn

ConcSpec == ConcInit /\ [][ConcNext]_vars

(***************************************************************************)
(* C22.  Concurrent use without synchronization.  While a dump and a load  *)
(* run interleaved on one instance, the limits of the instance stay as     *)
(* configured, each call has taken only steps the call alone takes, and a  *)
(* call that has returned has returned what the call alone returns.        *)
(***************************************************************************)
IsPrefix(a, b) == Len(a) <= Len(b) /\ SubSeq(b, 1, Len(a)) = a

IsComposite(v) == v.k \in {"slice", "array"} \/ (v.k = "keyedmap" /\ v.key = "string")

\* The []any or map[string]any with the elements of a composite value.
AsAny(v) == IF v.k \in {"slice", "array"} THEN List(v.l) ELSE Map(v.m)

CompositeHostTypes ==
  (Dumped /\ IsComposite(value) /\ BytesOf(AsAny(value)) # {}) =>
    /\ dumped.err # "UnsupportedType"
    /\ dumped.err = ""
    /\ dumped.bytes \in BytesOf(AsAny(value))

(***************************************************************************)
(* C24.  Limits are applied identically by encoder and decoder: whenever   *)
(* load under a limits configuration succeeds on a buffer with a value v,  *)
(* dump under the same configuration succeeds on v.                        *)
(***************************************************************************)
LimitsIdentical ==
  (Loaded /\ loaded.err = "") => \A r \in dump(poc, loaded.val) : r.err = ""

(***************************************************************************)
(* C25.  The depth check runs on entry to every node, before its tag is    *)
(* read or written.  The root is at depth 0; a List element, a Map value   *)
(* and, on decode, a Map key are one deeper than their container.  With    *)
(* the depth limit D no tag byte is read or written for a node deeper than *)
(* D, a scalar leaf at depth D+1 is refused with RecursionLimit, and an    *)
(* empty List or Map at depth D is accepted.                               *)
(***************************************************************************)
\* The functions of one side, as its log names them: the one entered for
\* every node, the ones entered for a List and a Map, whether the keys of a
\* Map are nodes of their own, and whether the node function enters itself
\* again for the same node (a native integer, converted).
DecodeSide ==
  [node |-> "decodeValue", list |-> "decodeArray", map |-> "decodeMap",
   keys |-> TRUE, reenters |-> FALSE]

EncodeSide ==
  [node |-> "encodeValue", list |-> "encodeArray", map |-> "encodeMap",
   keys |-> FALSE, reenters |-> TRUE]

\* The containers still open: those with a child yet to come.
RECURSIVE StillOpen(_)
StillOpen(stack) ==
  IF stack # <<>> /\ stack[Len(stack)].left = 0
  THEN StillOpen(SubSeq(stack, 1, Len(stack) - 1))
  ELSE stack

\* A log replayed from event i on, with the stack of the containers entered
\* so far: every node is entered one deeper than the container it is a
\* child of, and the root, with no container around it, at depth 0.
RECURSIVE ChildrenOneDeeper(_, _, _, _)
ChildrenOneDeeper(log, i, stack, side) ==
  IF i > Len(log) THEN TRUE
  ELSE
  LET e == log[i] IN
  IF e.op = side.node
  THEN IF side.reenters /\ i > 1 /\ log[i - 1].op = side.node /\ log[i - 1].at = e.at
       THEN e.depth = log[i - 1].depth /\ ChildrenOneDeeper(log, i + 1, stack, side)
       ELSE LET open == StillOpen(stack) IN
            IF open = <<>>
            THEN e.depth = 0 /\ i = 1 /\ ChildrenOneDeeper(log, i + 1, <<>>, side)
            ELSE LET top == open[Len(open)]
                     rest == SubSeq(open, 1, Len(open) - 1)
                     next == IF top.key THEN [top EXCEPT !.key = FALSE]
                             ELSE [top EXCEPT !.left = @ - 1, !.key = top.map]
                 IN
                 /\ e.depth = top.depth + 1
                 /\ ChildrenOneDeeper(log, i + 1, Append(rest, next), side)
  ELSE IF e.op \in {side.list, side.map}
  THEN /\ \E k \in 1..(i - 1) :
            /\ log[k].op = side.node /\ log[k].depth = e.depth
            /\ \A j \in (k + 1)..(i - 1) : log[j].op # side.node
       /\ ChildrenOneDeeper(log, i + 1,
            Append(stack, [depth |-> e.depth, left |-> e.n,
                           map |-> (e.op = side.map /\ side.keys),
                           key |-> (e.op = side.map /\ side.keys)]),
            side)
  ELSE ChildrenOneDeeper(log, i + 1, stack, side)

\* An empty List or Map the instance p has entered at event j of log is the
\* last thing the run did only if the run ended well, or with the refusal
\* of a key that is no String.
EmptyContainerAccepted(p, log, j, side, err) ==
  (log[j].op \in {side.list, side.map} /\ log[j].n = 0 /\ p.maxContainerItems >= 0
   /\ \A k \in (j + 1)..Len(log) : log[k].op # side.node)
    => (err = "" \/ (side.keys /\ err = "UnsupportedType"))

DepthRule ==
  /\ Loaded =>
       /\ ChildrenOneDeeper(loaded.log, 1, <<>>, DecodeSide)
       /\ \A i \in DOMAIN loaded.log :
            LET e == loaded.log[i] IN
            /\ e.op = "tag" =>
                 /\ i > 1 /\ loaded.log[i - 1].op = "decodeValue"
                 /\ loaded.log[i - 1].depth = e.depth /\ loaded.log[i - 1].at = e.at
                 /\ e.depth <= poc.maxRecursionDepth
            /\ (e.op = "decodeValue" /\ e.depth > poc.maxRecursionDepth) =>
                 /\ IsLast(loaded.log, i)
                 /\ loaded.err = RecursionLimit
                 /\ loaded.pos = e.at
            /\ EmptyContainerAccepted(poc, loaded.log, i, DecodeSide, loaded.err)
       /\ (poc.maxRecursionDepth = 0 /\ poc.maxContainerItems >= 0 /\ wire # <<>>
           /\ wire[1] \in {typeFixListBase, typeFixMapBase})
            => loaded.err = "" /\ loaded.val \in {List(<<>>), Map(EmptyMap)}
       /\ (origin = "peer" /\ WithinSizes(poc, value)) =>
            /\ Depth(value) - 1 = poc.maxRecursionDepth => loaded.err = RecursionLimit
            /\ Depth(value) <= poc.maxRecursionDepth => loaded.err # RecursionLimit
  /\ Dumped =>
       /\ ChildrenOneDeeper(dumped.log, 1, <<>>, EncodeSide)
       /\ \A i \in DOMAIN dumped.log :
            LET e == dumped.log[i] IN
            /\ (e.op = "encodeValue" /\ e.depth > poc.maxRecursionDepth) =>
                 /\ IsLast(dumped.log, i)
                 /\ dumped.err = RecursionLimit
                 /\ Len(dumped.buf) = e.at
            /\ (e.op = "encodeValue" /\ e.depth <= poc.maxRecursionDepth)
                 => dumped.err # RecursionLimit \/ ~IsLast(dumped.log, i)
            /\ EmptyContainerAccepted(poc, dumped.log, i, EncodeSide, dumped.err)
       /\ WithinSizes(poc, value) =>
            /\ Depth(value) - 1 = poc.maxRecursionDepth => dumped.err = RecursionLimit
            /\ Depth(value) <= poc.maxRecursionDepth => dumped.err = ""

\* With D = 1 the key of a Map inside a List, a String at depth 2, was
\* refused before its tag was read: two tags read, two bytes consumed.
DepthRuleWitness ==
  /\ poc.maxRecursionDepth = 1
  /\ origin = "peer"
  /\ value = List(<<Map(<<97>> :> Nil)>>)
  /\ Loaded
  /\ loaded.err = RecursionLimit
  /\ Cardinality(TagsRead) = 2
  /\ loaded.pos = 2

(***************************************************************************)
(* C26.  Zero-length payloads decode wherever they occur: a String or      *)
(* Bytes node with the declared length 0 decodes to the empty String or    *)
(* the empty Bytes with no error, both when bytes follow it and when it is *)
(* the last node of the input: load([0x30]) is "" and load([0x91, 0x00])   *)
(* is the empty Bytes.                                                     *)
(***************************************************************************)
\* The tag read at event i of the load heads a String or Bytes node whose
\* length field is all there and declares no payload.
IsZeroLength(i) ==
  /\ loaded.log[i].op = "tag"
  /\ HeaderOf(i).kind \in {"string", "bytes"}
  /\ HeaderOf(i).known
  /\ HeaderOf(i).n = 0

ZeroLengthPayloads ==
  (Loaded /\ poc.maxRecursionDepth >= 0 /\ poc.maxStringSize >= 0) =>
    /\ \A i \in DOMAIN loaded.log :
         IsZeroLength(i) =>
           \* the node is not where the load failed
           /\ loaded.err \in {"InsufficientData", "Utf8Error", "DataTooLarge"}
                => \E k \in (i + 1)..Len(loaded.log) : loaded.log[k].op = "decodeValue"
           \* and as the root it is the value of the load
           /\ loaded.log[i].depth = 0 =>
                /\ loaded.err = ""
                /\ loaded.val = IF HeaderOf(i).kind = "string" THEN Str(<<>>) ELSE Bytes(<<>>)
    /\ wire = <<typeFixStringBase>> => loaded.err = "" /\ loaded.val = Str(<<>>)
    /\ wire = <<typeBytes8, 0>> => loaded.err = "" /\ loaded.val = Bytes(<<>>)

(***************************************************************************)
(* C27.  Decode terminates on every finite input under every limits        *)
(* configuration: the read cursor never moves backwards and never passes   *)
(* the end of the buffer, every node visit that passes the depth check     *)
(* consumes at least one byte, its tag, and so a decode of n bytes visits  *)
(* at most n + 1 nodes before it returns, whatever the input declares.     *)
(***************************************************************************)
NodeVisits == {i \in DOMAIN loaded.log : loaded.log[i].op = "decodeValue"}

\* The visit at event i passed the depth check.
PassedDepthCheck(i) == loaded.log[i].depth <= poc.maxRecursionDepth

\* The visit at event i read its tag: the next event is the tag at its offset.
ConsumedTag(i) ==
  /\ i < Len(loaded.log)
  /\ loaded.log[i + 1].op = "tag"
  /\ loaded.log[i + 1].at = loaded.log[i].at

\* The cursor, as far as the log and the result show it.
CursorInBounds ==
  /\ \A i \in DOMAIN loaded.log : loaded.log[i].at >= 0 /\ loaded.log[i].at <= Len(wire)
  /\ \A i, j \in DOMAIN loaded.log : i <= j => loaded.log[i].at <= loaded.log[j].at
  /\ loaded.log # <<>> => loaded.log[Len(loaded.log)].at <= loaded.pos
  /\ loaded.pos >= 0 /\ loaded.pos <= Len(wire)

BoundedVisits ==
  /\ Cardinality(NodeVisits) <= Len(wire) + 1
  /\ \A i, j \in TagsRead : i < j => loaded.log[i].at < loaded.log[j].at
  /\ Cardinality(TagsRead) <= Len(wire)

EveryVisitConsumes ==
  Loaded =>
    /\ CursorInBounds
    /\ \A i \in NodeVisits : PassedDepthCheck(i) => ConsumedTag(i)
    /\ BoundedVisits

\* C27, amended: the one visit that passes the depth check and consumes
\* nothing is the one that finds the buffer at its end; it is the last and
\* the decode returns InsufficientData.
DecodeTerminates ==
  Loaded =>
    /\ CursorInBounds
    /\ \A i \in NodeVisits :
         PassedDepthCheck(i) =>
           \/ ConsumedTag(i)
           \/ /\ loaded.log[i].at = Len(wire)
              /\ IsLast(loaded.log, i)
              /\ loaded.err = "InsufficientData"
              /\ loaded.pos = Len(wire)
    /\ BoundedVisits

\* A buffer of at least three bytes was visited n + 1 times: every byte was
\* the tag of a node, and the last visit found the buffer at its end.
DecodeTerminatesWitness ==
  /\ Loaded
  /\ Len(wire) >= 3
  /\ Cardinality(NodeVisits) = Len(wire) + 1
  /\ PassedDepthCheck(Len(loaded.log))
  /\ loaded.err = "InsufficientData"

(***************************************************************************)
(* C28.  Trailing bytes are ignored: for every Value v that encodes and    *)
(* every byte sequence t, load(dump(v) ++ t) succeeds and returns the      *)
(* value load(dump(v)) returns; load decodes exactly one value from offset *)
(* 0 and never reports unread bytes as an error.                           *)
(***************************************************************************)
TrailingBytesIgnored ==
  (Loaded /\ origin = "trailing" /\ IsValue(value)) =>
    /\ loaded.err = ""
    /\ loaded.pos = Len(dumped.bytes)
    /\ load(poc, dumped.bytes).err = ""
    /\ loaded.val = load(poc, dumped.bytes).val

(***************************************************************************)
(* C29.  Duplicate keys on decode are resolved last-wins: decoding a Map   *)
(* node with the declared count n in which the same String key comes more  *)
(* than once raises no error, the Map returned binds the key to the value  *)
(* of its last occurrence in the stream, and has fewer than n entries.     *)
(***************************************************************************)
\* The k-th smallest member of a set of numbers.
Nth(S, k) == CHOOSE x \in S : Cardinality({y \in S : y <= x}) = k

\* The Map node entered at event j of the load, decoded on its own, and the
\* visits of its keys and values in the order of the stream.
MapNode(j) ==
  decodeMap(poc, wire, loaded.log[j].at, <<>>, loaded.log[j].n, loaded.log[j].depth)

ChildVisits(sub, depth) ==
  LET S == {i \in DOMAIN sub.log :
              sub.log[i].op = "decodeValue" /\ sub.log[i].depth = depth + 1}
  IN [k \in 1..Cardinality(S) |-> Nth(S, k)]

\* What the visit at event i of sub decoded.
ChildAt(sub, i) == decodeValue(poc, wire, sub.log[i].at, <<>>, sub.log[i].depth)

\* The Map node at event j has a key that comes twice among its pairs.
HasDuplicateKey(j) ==
  LET sub == MapNode(j)
      visits == ChildVisits(sub, loaded.log[j].depth)
  IN
  /\ sub.err = ""
  /\ \E a, b \in 1..loaded.log[j].n :
       a < b /\ ChildAt(sub, visits[2 * a - 1]).val = ChildAt(sub, visits[2 * b - 1]).val

DuplicateKeysLastWins ==
  Loaded =>
    \A j \in DOMAIN loaded.log :
      (loaded.log[j].op = "decodeMap" /\ loaded.log[j].n <= poc.maxContainerItems) =>
        LET n == loaded.log[j].n
            depth == loaded.log[j].depth
            sub == MapNode(j)
            visits == ChildVisits(sub, depth)
            keyOf(a) == ChildAt(sub, visits[2 * a - 1]).val
            valueOf(a) == ChildAt(sub, visits[2 * a]).val
            last == IF visits = <<>> THEN Ret(Nil, "", 0, <<>>)
                    ELSE ChildAt(sub, visits[Len(visits)])
        IN
        /\ sub.err # "" =>
             \* the error is the one of the last key or value visited
             /\ visits # <<>>
             /\ \/ last.err = sub.err
                \/ /\ sub.err = "UnsupportedType"
                   /\ Len(visits) % 2 = 1
                   /\ last.err = "" /\ last.val.k # "string"
        /\ sub.err = "" =>
             /\ Len(visits) = 2 * n
             /\ sub.val.k = "map"
             /\ DOMAIN sub.val.m = {keyOf(a).s : a \in 1..n}
             /\ \A a \in 1..n :
                  (\A b \in (a + 1)..n : keyOf(b) # keyOf(a))
                    => sub.val.m[keyOf(a).s] = valueOf(a)
             /\ HasDuplicateKey(j) => Cardinality(DOMAIN sub.val.m) < n
             /\ depth = 0 => loaded.err = "" /\ loaded.val = sub.val

\* {"a": true, "b": nil, "a": false} was decoded to {"a": false, "b": nil}.
DuplicateKeysLastWinsWitness ==
  /\ Loaded
  /\ wire = <<typeFixMapBase + 3, 49, 97, typeTrue, 49, 98, typeNil, 49, 97, typeFalse>>
  /\ loaded.err = ""
  /\ loaded.log[3].op = "decodeMap"
  /\ HasDuplicateKey(3)
  /\ loaded.val = Map((<<97>> :> Bool(FALSE)) @@ (<<98>> :> Nil))

(***************************************************************************)
(* The length fields at the full width of a Go int.  len(data) is a 64-bit *)
(* int, here its eight bytes, most significant first; the payload itself   *)
(* is left out, only its kind and its length are kept.  The encoder's      *)
(* limit checks and tier choices are the ones of encodeString,             *)
(* encodeArray, encodeMap and encodeBytes; uint8(length), uint16(length),  *)
(* uint32(length) keep the low bytes of the int.                           *)
(***************************************************************************)
\* The int n, 0 <= n < 2^31, at 64 bits.
Int64(n) == Num(n).mag

\* math.MaxUint32, the default maxStringSize and maxContainerItems.
MaxUint32 == <<0, 0, 0, 0, 255, 255, 255, 255>>

\* The tags of the Fix, 16-bit and 32-bit tier of Strings, Lists and Maps.
TierTags ==
  [string |-> <<typeFixStringBase, typeString16, typeString32>>,
   list |-> <<typeFixListBase, typeList16, typeList32>>,
   map |-> <<typeFixMapBase, typeMap16, typeMap32>>]

\* The header encodeString, encodeArray and encodeMap write for a payload
\* of `length` under the limit `max`, or the error they return.
encodeLength(kind, length, max) ==
  IF ~LexLeq(length, max) THEN [err |-> "DataTooLarge", bytes |-> <<>>]
  ELSE IF LexLeq(length, Int64(15))
  THEN [err |-> "", bytes |-> <<(TierTags[kind][1] + Low(length, 1)[1]) % 256>>]
  ELSE IF LexLeq(length, Int64(65535))
  THEN [err |-> "", bytes |-> <<TierTags[kind][2]>> \o Low(length, 2)]
  ELSE [err |-> "", bytes |-> <<TierTags[kind][3]>> \o Low(length, 4)]

\* The header encodeBytes writes: no limit is checked.
encodeBytesLength(length) ==
  IF LexLeq(length, Int64(255))
  THEN [err |-> "", bytes |-> <<typeBytes8>> \o Low(length, 1)]
  ELSE IF LexLeq(length, Int64(65535))
  THEN [err |-> "", bytes |-> <<typeBytes16>> \o Low(length, 2)]
  ELSE [err |-> "", bytes |-> <<typeBytes32>> \o Low(length, 4)]

\* The length decodeValue takes from a header: int(typeByte - base) of a Fix
\* tag, int(length) of the field read after another.
decodeLength(header) ==
  LET typeByte == header[1] IN
  IF IsFixString(typeByte) THEN Int64(typeByte - typeFixStringBase)
  ELSE IF IsFixList(typeByte) THEN Int64(typeByte - typeFixListBase)
  ELSE IF IsFixMap(typeByte) THEN Int64(typeByte - typeFixMapBase)
  ELSE FromUnsigned(Tail(header)).mag

\* Payload lengths around the edges of the tiers and of 32 bits.
WideLengths ==
  { Int64(n) : n \in {0, 1, 14, 15, 16, 17, 254, 255, 256, 257, 65534, 65535, 65536, 65537,
                      16777215, 16777216, 2147483647} }
  \cup { <<0, 0, 0, 0, 128, 0, 0, 0>>, <<0, 0, 0, 0, 255, 255, 255, 254>>, MaxUint32,
         <<0, 0, 0, 1, 0, 0, 0, 0>>, <<0, 0, 0, 1, 0, 0, 0, 1>>, <<0, 0, 0, 1, 0, 0, 0, 15>>,
         <<0, 0, 0, 1, 0, 0, 0, 255>>, <<0, 0, 0, 1, 0, 0, 1, 0>>, <<0, 0, 0, 1, 0, 1, 0, 0>>,
         <<0, 0, 0, 2, 0, 0, 0, 0>>, <<0, 0, 1, 0, 0, 0, 0, 16>>,
         <<127, 255, 255, 255, 255, 255, 255, 255>> }

PayloadKinds == {"string", "bytes", "list", "map"}

\* A codec with the default limits is handed a payload: value is its kind
\* and length, wire the header written for it, dumped the encoder's error
\* and loaded the length a decoder takes from the header.
LengthInit ==
  /\ poc = [maxStringSize |-> MaxUint32, maxContainerItems |-> MaxUint32]
  /\ value \in [kind : PayloadKinds, length : WideLengths]
  /\ wire = <<>>
  /\ origin = "value"
  /\ dumped = "-"
  /\ loaded = <<>>
  /\ pc = "encode"

EncodeLength ==
  /\ pc = "encode"
  /\ LET r == CASE value.kind = "string" ->
                     encodeLength("string", value.length, poc.maxStringSize)
                [] value.kind = "bytes" -> encodeBytesLength(value.length)
                [] OTHER -> encodeLength(value.kind, value.length, poc.maxContainerItems)
     IN /\ wire' = r.bytes
        /\ dumped' = r.err
        /\ pc' = IF r.err = "" THEN "decode" ELSE "done"
  /\ UNCHANGED <<poc, value, origin, loaded>>

DecodeLength ==
  /\ pc = "decode"
  /\ loaded' = decodeLength(wire)
  /\ pc' = "done"
  /\ UNCHANGED <<poc, value, wire, origin, dumped>>

LengthNext == EncodeLength \/ DecodeLength

LengthSpec == LengthInit /\ [][LengthNext]_vars

(***************************************************************************)
(* C30.  Length fields are never truncated: for every String, Bytes, List  *)
(* or Map the encoder accepts under the default limits, the length or      *)
(* count written in the header, in the low nibble of the tag or as a field *)
(* of 8, 16 or 32 bits, is the length or count of the payload, not reduced *)
(* modulo 2^8, 2^16 or 2^32.                                               *)
(***************************************************************************)
\* The number a header holds, at 64 bits: the low nibble of a Fix tag, or
\* the field after the tag.
HeaderLength(header) ==
  IF header[1] \in {typeBytes8, typeBytes16, typeBytes32, typeString16, typeString32,
                    typeList16, typeList32, typeMap16, typeMap32}
  THEN Zeros(9 - Len(header)) \o Tail(header)
  ELSE Int64(header[1] % 16)

LengthsNotTruncated ==
  /\ (pc \in {"decode", "done"} /\ dumped = "") => HeaderLength(wire) = value.length
  /\ (pc = "done" /\ dumped = "") => loaded = value.length

=============================================================================
